---- MODULE Spec2Model ----
(***************************************************************************)
(* Vehicle damage detection service (ai-service): the post-detection       *)
(* analytics of utils.py, analyzer.py and compare_damage.py, the request   *)
(* handlers of app.py, and the two model caches (model_loader.py and       *)
(* compare_damage.py).                                                     *)
(*                                                                         *)
(* Numbers.  The code computes in binary floating point; the model         *)
(* computes the same expressions exactly, on scaled integers.  A name's    *)
(* suffix gives its unit: x_4000 is the quantity x in units of 1/4000.     *)
(* Inputs are drawn so that every intermediate value is an integer in its  *)
(* unit: pixels are integers, confidences are tenths, area ratios reaching *)
(* the estimator are hundredths.  Strings whose characters the code looks  *)
(* at (class names: lower(), formatting of class ids) are sequences of     *)
(* one-character strings; the others are TLA+ strings.                     *)
(***************************************************************************)
EXTENDS Integers, Sequences, FiniteSets, TLC

(***************************************************************************)
(* The state.                                                              *)
(***************************************************************************)
VARIABLES
    (* one call of get_damage_severity: its arguments and what it returned *)
    sev_args, sev_ret,
    (* one call of estimate_repair_details from the analyzer's loop body:  *)
    (* its arguments, its locals, what it returned, and repair_cost        *)
    est_args, est_locals, est_ret, est_cost,
    (* one call of find_new_damages *)
    pickup_detections, return_detections, iou_threshold, new_items, match_pc,
    (* one call of analyze_image_bytes: its argument, its position, its    *)
    (* locals, the loader's global _model, what it returned or raised, and *)
    (* how often it asked for the handle and invoked the detector          *)
    image_bytes, pc, img, model, _model, results, i, detections, returned, exc,
    get_model_calls, predict_calls,
    (* one POST /detect request: the module's SAVE_DEBUG_IMAGES flag, the   *)
    (* uploaded files' contents, the handler's position and locals          *)
    (* (upload_k is the 1-based index of `upload` in `images`), what        *)
    (* _run_inference returned, the HTTP response, the calls made to        *)
    (* save_image_with_bboxes, and the calls made to analyze_image_bytes    *)
    SAVE_DEBUG_IMAGES, images, app_pc, upload_k, content, run_detections,
    batched_results, response, previews, analyses,
    (* one call of analyze_pickup_return: its arguments, position, locals,  *)
    (* and what it returned or raised                                       *)
    cmp_args, cmp_pc, pickup_dets, return_dets, similarity, cmp_ret,
    (* the embedding model: whether torch sees a CUDA device, the one slot  *)
    (* of lru_cache(maxsize=1) around _get_clip_model, how many models were *)
    (* created, and the calls made to compute_similarity_bytes              *)
    cuda_available, clip_cache, clip_loads, clip_calls,
    (* threads inside load_model: each thread's position, its model_path,   *)
    (* the handle it has just loaded, the weights it has attempted in this  *)
    (* call; how many                                                       *)
    (* YOLO instances exist, every assignment made to _model, and the       *)
    (* calls that have ended                                                *)
    ld_pc, ld_path, ld_loaded, ld_attempts, ld_created, ld_stores, ld_calls,
    (* the server's event loop: the request whose handler occupies the      *)
    (* loop's thread, and each request's progress                           *)
    loop_task, req,
    (* the floating-point environment: the side on which the binary value  *)
    (* of a quantity lying exactly halfway between two decimal neighbours  *)
    (* falls when round() is applied to it                                 *)
    fp_ties

(* Python's None, and a raised exception, as records: every optional value *)
(* of the model is a record, told apart by its fields.                    *)
None == [none |-> TRUE]

Raised(kind, message) == [exception |-> kind, message |-> message]

IsRaised(v) == "exception" \in DOMAIN v

Max(a, b) == IF a >= b THEN a ELSE b

Min(a, b) == IF a <= b THEN a ELSE b

(* Python's round() of a float whose exact value is the rational n/d       *)
(* (d > 0): the nearest integer.  When n/d is exactly halfway, the float   *)
(* the code holds may lie on either side of it (or on it, and round() then *)
(* goes to the even neighbour): fp_ties says which neighbour results.      *)
RoundNearest(n, d) ==
    LET q == n \div d
        r == n % d
    IN  IF 2 * r < d THEN q
        ELSE IF 2 * r > d THEN q + 1
        ELSE IF fp_ties = "up" THEN q + 1 ELSE q

RECURSIVE Gcd(_, _)
(* the greatest common divisor of a >= 0 and b >= 0, not both 0 *)
Gcd(a, b) == IF b = 0 THEN a ELSE Gcd(b, a % b)

(* round(n/d, 4), in units of 1/10000 (the fraction is reduced first, to   *)
(* keep the product small) *)
Round4(n, d) ==
    LET g == Gcd(IF n < 0 THEN -n ELSE n, d)
    IN  RoundNearest((n \div g) * 10000, d \div g)

(* round(n/d, 2), in units of 1/100 *)
Round2(n, d) == RoundNearest(n * 100, d)

(* A rational n/d with d > 0, and its comparisons. *)
Rat(n, d) == [n |-> n, d |-> d]

RatLt(a, b) == IF a.d = b.d THEN a.n < b.n ELSE a.n * b.d < b.n * a.d

RatMax(a, b) == IF RatLt(a, b) THEN b ELSE a

(***************************************************************************)
(* Character strings.                                                      *)
(***************************************************************************)
UpperToLower ==
    [c \in {"A","B","C","D","E","F","G","H","I","J","K","L","M",
            "N","O","P","Q","R","S","T","U","V","W","X","Y","Z"} |->
        CASE c = "A" -> "a" [] c = "B" -> "b" [] c = "C" -> "c" [] c = "D" -> "d"
          [] c = "E" -> "e" [] c = "F" -> "f" [] c = "G" -> "g" [] c = "H" -> "h"
          [] c = "I" -> "i" [] c = "J" -> "j" [] c = "K" -> "k" [] c = "L" -> "l"
          [] c = "M" -> "m" [] c = "N" -> "n" [] c = "O" -> "o" [] c = "P" -> "p"
          [] c = "Q" -> "q" [] c = "R" -> "r" [] c = "S" -> "s" [] c = "T" -> "t"
          [] c = "U" -> "u" [] c = "V" -> "v" [] c = "W" -> "w" [] c = "X" -> "x"
          [] c = "Y" -> "y" [] c = "Z" -> "z"]

(* str.lower() *)
Lower(s) ==
    [k \in 1..Len(s) |-> IF s[k] \in DOMAIN UpperToLower THEN UpperToLower[s[k]] ELSE s[k]]

DigitChar == <<"0","1","2","3","4","5","6","7","8","9">>

RECURSIVE IntToStr(_)
(* str() of a non-negative integer *)
IntToStr(k) ==
    IF k < 10 THEN <<DigitChar[k + 1]>>
    ELSE IntToStr(k \div 10) \o <<DigitChar[(k % 10) + 1]>>

(***************************************************************************)
(* Dictionaries.  d[k] raises KeyError on a missing key; d.get(k, default) *)
(* does not.                                                               *)
(***************************************************************************)
Subscript(d, k) == IF k \in DOMAIN d THEN d[k] ELSE Raised("KeyError", "")

DictGet(d, k, default) == IF k \in DOMAIN d THEN d[k] ELSE default

(***************************************************************************)
(* utils.py: get_damage_severity                                           *)
(***************************************************************************)
BBOX_LOW_PIXELS == 1500

LOW_PIXELS == 2500

MEDIUM_PIXELS == 8000

(* 0.04 and 0.12 *)
LOW_RATIO == Rat(4, 100)

MEDIUM_RATIO == Rat(12, 100)

SeverityLabel_Inclusive(bbox_pixels, ratio, low_threshold, medium_threshold) ==
    IF bbox_pixels < BBOX_LOW_PIXELS THEN "low"
    ELSE IF ~RatLt(low_threshold, ratio) THEN "low"
    ELSE IF RatLt(ratio, medium_threshold) THEN "medium"
    ELSE "high"

(* The if/elif chain: the severity of a box of bbox_pixels pixels whose    *)
(* share of the image is ratio. *)
SeverityLabel(bbox_pixels, ratio, low_threshold, medium_threshold) ==
    IF bbox_pixels < BBOX_LOW_PIXELS THEN "low"
    ELSE IF RatLt(ratio, low_threshold) THEN "low"
    ELSE IF RatLt(ratio, medium_threshold) THEN "medium"
    ELSE "high"

(* Returns <<severity, ratio>>. *)
get_damage_severity(width, height, img_width, img_height) ==
    LET damage_area == Max(0, width) * Max(0, height)
        image_area == Max(1, img_width * img_height)
        ratio == Rat(damage_area, image_area)
        low_threshold == RatMax(LOW_RATIO, Rat(LOW_PIXELS, image_area))
        medium_threshold == RatMax(MEDIUM_RATIO, Rat(MEDIUM_PIXELS, image_area))
    IN  <<SeverityLabel(damage_area, ratio, low_threshold, medium_threshold), ratio>>

(***************************************************************************)
(* utils.py: the repair cost estimator                                     *)
(***************************************************************************)
LABOR_RATE == 70

MATERIAL_RATE == 50

s_scratch == <<"s","c","r","a","t","c","h">>
s_scratches == <<"s","c","r","a","t","c","h","e","s">>
s_paint == <<"p","a","i","n","t">>
s_dent == <<"d","e","n","t">>
s_ding == <<"d","i","n","g">>
s_crack == <<"c","r","a","c","k">>
s_glass_shatter == <<"g","l","a","s","s"," ","s","h","a","t","t","e","r">>
s_lamp_broken == <<"l","a","m","p"," ","b","r","o","k","e","n">>
s_tire_flat == <<"t","i","r","e"," ","f","l","a","t">>
s_broken == <<"b","r","o","k","e","n">>
s_default == <<"d","e","f","a","u","l","t">>

Profile(base_hours_10, material_factor_10) ==
    [base_hours_10 |-> base_hours_10, material_factor_10 |-> material_factor_10]

(* base_hours and material_factor, in tenths *)
TYPE_COMPLEXITY ==
    (s_scratch :> Profile(8, 5)) @@ (s_scratches :> Profile(8, 5))
    @@ (s_paint :> Profile(10, 7)) @@ (s_dent :> Profile(15, 10))
    @@ (s_ding :> Profile(12, 8)) @@ (s_crack :> Profile(11, 12))
    @@ (s_glass_shatter :> Profile(22, 16)) @@ (s_lamp_broken :> Profile(13, 11))
    @@ (s_tire_flat :> Profile(10, 9)) @@ (s_broken :> Profile(18, 14))
    @@ (s_default :> Profile(10, 9))

(* the severity loads 0.7, 1.0, 1.5, 0.85, in twentieths *)
SEVERITY_LOAD ==
    [s \in {"low", "medium", "high", "unknown"} |->
        [load_20 |-> CASE s = "low" -> 14 [] s = "medium" -> 20
                       [] s = "high" -> 30 [] s = "unknown" -> 17]]

TypeProfile_NoFallback(damage_type) == Subscript(TYPE_COMPLEXITY, Lower(damage_type))

(* TYPE_COMPLEXITY.get(damage_type.lower(), TYPE_COMPLEXITY["default"]) *)
TypeProfile(damage_type) ==
    DictGet(TYPE_COMPLEXITY, Lower(damage_type), Subscript(TYPE_COMPLEXITY, s_default))

(* SEVERITY_LOAD.get(severity, SEVERITY_LOAD["unknown"]) *)
SeverityFactor(severity) ==
    DictGet(SEVERITY_LOAD, severity, Subscript(SEVERITY_LOAD, "unknown"))

(* max(0.6, min(2.5, 0.9 + area_ratio * 5)), in twentieths; area_ratio is  *)
(* a rational whose hundredfold is an integer *)
EffortMultiplier(area_ratio) ==
    Max(12, Min(50, 18 + (100 * area_ratio.n) \div area_ratio.d))

(* max(0.55, min(1.1, 0.75 + float(confidence) * 0.35)), in 1/200;        *)
(* confidence in tenths *)
ConfidenceFactor(confidence_10) == Max(110, Min(220, 150 + 7 * confidence_10))

TotalCost_NoTens(raw_total_1600000) == RoundNearest(raw_total_1600000, 1600000)

(* int(round(raw_total / 10.0) * 10) *)
TotalCost(raw_total_1600000) == RoundNearest(raw_total_1600000, 16000000) * 10

(* The dictionary estimate_repair_details returns, or the exception it     *)
(* raises.  LABOR_RATE is a multiple of 10, so labor_cost_400 is exact.    *)
estimate_repair_details(damage_type, severity, area_ratio, confidence_10) ==
    LET profile == TypeProfile(damage_type)
        severity_factor == SeverityFactor(severity)
    IN  IF IsRaised(profile) THEN profile
        ELSE IF IsRaised(severity_factor) THEN severity_factor
        ELSE
        LET effort_multiplier_20 == EffortMultiplier(area_ratio)
            confidence_factor_200 == ConfidenceFactor(confidence_10)
            labor_hours_4000 ==
                profile.base_hours_10 * severity_factor.load_20 * effort_multiplier_20
            material_units_400 == profile.material_factor_10 * (28 + effort_multiplier_20)
            labor_cost_400 == (LABOR_RATE * labor_hours_4000) \div 10
            material_cost_400 == MATERIAL_RATE * material_units_400
            overhead_cost_8000 == 3 * (labor_cost_400 + material_cost_400)
            raw_total_1600000 ==
                (20 * (labor_cost_400 + material_cost_400) + overhead_cost_8000)
                    * confidence_factor_200
        IN  [damage_type |-> damage_type,
             severity |-> severity,
             area_ratio |-> Round4(area_ratio.n, area_ratio.d),
             labor_hours |-> Round2(labor_hours_4000, 4000),
             material_units |-> Round2(material_units_400, 400),
             labor_cost |-> Round2(labor_cost_400, 400),
             material_cost |-> Round2(material_cost_400, 400),
             overhead_cost |-> Round2(overhead_cost_8000, 8000),
             confidence_factor |-> Round2(confidence_factor_200, 200),
             total_cost |-> TotalCost(raw_total_1600000)]

(* analyzer.py: "repair_cost": int(repair_details["total_cost"]) *)
RepairCost(repair_details) == repair_details.total_cost

(***************************************************************************)
(* compare_damage.py: the cross-image matcher.  Box fields are in units of *)
(* 1/10000 (the analyzer rounds them to 4 decimals), areas in their square.*)
(***************************************************************************)
_det_to_xyxy(det) == <<det.x, det.y, det.x + det.width, det.y + det.height>>

_iou_UnionWithoutIntersection(box_a, box_b) ==
    LET inter_w == Max(0, Min(box_a[3], box_b[3]) - Max(box_a[1], box_b[1]))
        inter_h == Max(0, Min(box_a[4], box_b[4]) - Max(box_a[2], box_b[2]))
        area_a == Max(0, box_a[3] - box_a[1]) * Max(0, box_a[4] - box_a[2])
        area_b == Max(0, box_b[3] - box_b[1]) * Max(0, box_b[4] - box_b[2])
        denom == area_a + area_b
    IN  IF denom > 0 THEN Rat(inter_w * inter_h, denom) ELSE Rat(0, 1)

(* inter_area / denom, or 0.0 when denom is not positive *)
_iou(box_a, box_b) ==
    LET inter_x1 == Max(box_a[1], box_b[1])
        inter_y1 == Max(box_a[2], box_b[2])
        inter_x2 == Min(box_a[3], box_b[3])
        inter_y2 == Min(box_a[4], box_b[4])
        inter_w == Max(0, inter_x2 - inter_x1)
        inter_h == Max(0, inter_y2 - inter_y1)
        inter_area == inter_w * inter_h
        area_a == Max(0, box_a[3] - box_a[1]) * Max(0, box_a[4] - box_a[2])
        area_b == Max(0, box_b[3] - box_b[1]) * Max(0, box_b[4] - box_b[2])
        denom == area_a + area_b - inter_area
    IN  IF denom > 0 THEN Rat(inter_area, denom) ELSE Rat(0, 1)

IouMatches_Below(iou, iou_thr) == ~RatLt(iou_thr, iou)

(* _iou(...) >= iou_threshold *)
IouMatches(iou, iou_thr) == ~RatLt(iou, iou_thr)

BucketKey_Lower(det) == Lower(det.class)

(* the key of pickup_by_class a pickup detection is filed under *)
BucketKey(det) == det.class

RECURSIVE BucketByClass(_, _)
(* pickup_by_class after the first k pickup detections:                    *)
(* pickup_by_class.setdefault(det["class"], []).append(det) *)
BucketByClass(pickup, k) ==
    IF k = 0 THEN <<>>
    ELSE LET before == BucketByClass(pickup, k - 1)
             key == BucketKey(pickup[k])
             bucket == DictGet(before, key, <<>>)
         IN  [c \in DOMAIN before \cup {key} |->
                 IF c = key THEN Append(bucket, pickup[k]) ELSE before[c]]

RECURSIVE FirstMatch(_, _, _, _)
(* the inner for loop from candidate j on: matched becomes True at the     *)
(* first candidate whose IoU with ret_box reaches the threshold *)
FirstMatch(candidates, j, ret_box, iou_thr) ==
    IF j > Len(candidates) THEN FALSE
    ELSE IF IouMatches(_iou(ret_box, _det_to_xyxy(candidates[j])), iou_thr) THEN TRUE
    ELSE FirstMatch(candidates, j + 1, ret_box, iou_thr)

AppendNew_Front(items, ret_det) == <<ret_det>> \o items

(* new_items.append(ret_det) *)
AppendNew(items, ret_det) == Append(items, ret_det)

RECURSIVE NewItems(_, _, _, _)
(* new_items after the first k return detections *)
NewItems(pickup_by_class, ret, k, iou_thr) ==
    IF k = 0 THEN <<>>
    ELSE LET before == NewItems(pickup_by_class, ret, k - 1, iou_thr)
             ret_det == ret[k]
             candidates == DictGet(pickup_by_class, ret_det.class, <<>>)
             matched == FirstMatch(candidates, 1, _det_to_xyxy(ret_det), iou_thr)
         IN  IF ~matched THEN AppendNew(before, ret_det) ELSE before

find_new_damages(pickup, ret, iou_thr) ==
    NewItems(BucketByClass(pickup, Len(pickup)), ret, Len(ret), iou_thr)

(***************************************************************************)
(* analyzer.py: analyze_image_bytes                                        *)
(***************************************************************************)
(* cv2.imdecode: None for bytes that are no image or encode an empty one,  *)
(* else an array of shape (height, width, 3) with positive dimensions.     *)
imdecode(payload) ==
    IF payload.kind = "image" /\ payload.w > 0 /\ payload.h > 0
    THEN [shape |-> <<payload.h, payload.w, 3>>]
    ELSE None

AfterDecode_NoCheck(decoded) == "get_model"

(* if img is None: raise ValueError(...) *)
AfterDecode(decoded) == IF decoded = None THEN "raise" ELSE "get_model"

(* model.names of the two checkpoints of the loader's fallback chain: the  *)
(* CarDD classes of the trained weights, and (part of) the COCO classes of *)
(* the generic yolov8n.pt. *)
CARD_DD_CLASSES ==
    (0 :> s_dent) @@ (1 :> s_scratch) @@ (2 :> s_crack)
    @@ (3 :> s_glass_shatter) @@ (4 :> s_lamp_broken) @@ (5 :> s_tire_flat)

COCO_CLASSES ==
    (0 :> <<"p","e","r","s","o","n">>) @@ (1 :> <<"b","i","c","y","c","l","e">>)
    @@ (2 :> <<"c","a","r">>)

Names(handle) == IF handle.weights = "primary" THEN CARD_DD_CLASSES ELSE COCO_CLASSES

(* model.names.get(cls_id, f"class_{cls_id}") *)
ClassName(names, cls_id) ==
    DictGet(names, cls_id, <<"c","l","a","s","s","_">> \o IntToStr(cls_id))

NormX_ByHeight(x_min, img_w, img_h) == Round4(x_min, img_h)

(* round(float(x_min) / img_w, 4) *)
NormX(x_min, img_w, img_h) == Round4(x_min, img_w)

(* The body of the for loop: the record appended for raw detection         *)
(* (box, conf, cls_id), or the exception the estimator raised.             *)
DetectionRecord(names, box, conf_10, cls_id, img_w, img_h) ==
    LET class_name == ClassName(names, cls_id)
        width == box.x_max - box.x_min
        height == box.y_max - box.y_min
        sev == get_damage_severity(width, height, img_w, img_h)
        severity == sev[1]
        area_ratio == sev[2]
        repair_details == estimate_repair_details(class_name, severity, area_ratio, conf_10)
    IN  IF IsRaised(repair_details) THEN repair_details
        ELSE [class |-> class_name,
              type |-> class_name,
              conf |-> Round4(conf_10, 10),
              confidence |-> Round2(conf_10 * 100, 10),
              x |-> NormX(box.x_min, img_w, img_h),
              y |-> Round4(box.y_min, img_h),
              width |-> Round4(width, img_w),
              height |-> Round4(height, img_h),
              area_ratio |-> Round4(area_ratio.n, area_ratio.d),
              severity |-> severity,
              repair_cost |-> RepairCost(repair_details),
              repair_details |-> repair_details]

LoopRange_SkipLast(n) == n - 1

(* range(len(xyxy)): the number of iterations of the for loop *)
LoopRange(n) == n

(***************************************************************************)
(* model_loader.py: the process-wide detector handle                       *)
(***************************************************************************)
Handle(weights) == [weights |-> weights]

(* load_model on cache `cached`, when loading the configured weights       *)
(* succeeds (primary_loads) or not, and loading yolov8n.pt likewise:       *)
(* the new cache and what the call returns or raises.                      *)
load_model(cached, primary_loads, fallback_loads) ==
    IF cached # None THEN [cache |-> cached, result |-> cached]
    ELSE IF primary_loads THEN [cache |-> Handle("primary"), result |-> Handle("primary")]
    ELSE IF fallback_loads THEN [cache |-> Handle("fallback"), result |-> Handle("fallback")]
    ELSE [cache |-> None, result |-> Raised("Exception", "cannot load yolov8n.pt")]

(***************************************************************************)
(* compare_damage.py: the embedding model and the similarity score         *)
(***************************************************************************)
(* device or ("cuda" if torch.cuda.is_available() else "cpu"); an optional *)
(* argument is None or [value |-> v] *)
ResolveDevice(device, cuda) ==
    IF device # None THEN device.value ELSE IF cuda THEN "cuda" ELSE "cpu"

(* the model open_clip.create_model_and_transforms builds for the          *)
(* arguments `key`: the serial tells two builds apart *)
ClipModel(key, serial) == [config |-> key, serial |-> serial]

_get_clip_model_Unkeyed(slot, key, creates, serial) ==
    IF slot # None
    THEN [slot |-> slot, created |-> FALSE, result |-> slot.value]
    ELSE IF creates
         THEN [slot |-> [key |-> key, value |-> ClipModel(key, serial)],
               created |-> TRUE, result |-> ClipModel(key, serial)]
         ELSE [slot |-> slot, created |-> FALSE,
               result |-> Raised("RuntimeError", "cannot create model")]

(* @lru_cache(maxsize=1) around _get_clip_model, called with the argument  *)
(* tuple `key` when the cache holds `slot`: functools looks the tuple up,  *)
(* returns the stored value on a hit, and on a miss calls the function and *)
(* stores its value under the tuple, evicting the one older entry; a call  *)
(* that raises stores nothing. *)
_get_clip_model(slot, key, creates, serial) ==
    IF slot # None /\ slot.key = key
    THEN [slot |-> slot, created |-> FALSE, result |-> slot.value]
    ELSE IF creates
         THEN [slot |-> [key |-> key, value |-> ClipModel(key, serial)],
               created |-> TRUE, result |-> ClipModel(key, serial)]
         ELSE [slot |-> slot, created |-> FALSE,
               result |-> Raised("RuntimeError", "cannot create model")]

(* Image.open(io.BytesIO(payload)).convert("RGB") *)
_load_image_from_bytes(payload) ==
    IF payload.kind = "image" /\ payload.w > 0 /\ payload.h > 0
    THEN [size |-> <<payload.w, payload.h>>]
    ELSE Raised("UnidentifiedImageError", "cannot identify image file")

(* compute_similarity_bytes with arguments `args` when the cache holds     *)
(* `slot`: the new cache, whether a model was created, the model or the    *)
(* exception _get_clip_model gave, and the score returned or the exception *)
(* raised.  `encoded` is what encoding and comparing the two images gives: *)
(* [value |-> similarity in hundredths] or an exception. *)
compute_similarity_bytes(slot, args, cuda, creates, serial, encoded) ==
    LET key == <<args.model_name, args.pretrained, ResolveDevice(args.device, cuda)>>
        got == _get_clip_model(slot, key, creates, serial)
        img_a == _load_image_from_bytes(args.pickup_bytes)
        img_b == _load_image_from_bytes(args.return_bytes)
    IN  [slot |-> got.slot, created |-> got.created, key |-> key, model |-> got.result,
         result |-> IF IsRaised(got.result) THEN got.result
                    ELSE IF IsRaised(img_a) THEN img_a
                    ELSE IF IsRaised(img_b) THEN img_b
                    ELSE encoded]

(***************************************************************************)
(* utils.py: save_image_with_bboxes                                        *)
(***************************************************************************)
(* The preview of `dets` drawn on the image: the path written, or the      *)
(* exception raised when the output directory cannot be made or written    *)
(* (`writable` is false) or the bytes do not decode.  It reads the         *)
(* detections and changes none of them. *)
save_image_with_bboxes(payload, dets, writable) ==
    IF ~writable THEN Raised("OSError", "cannot write output")
    ELSE IF imdecode(payload) = None
         THEN Raised("ValueError", "Failed to process image for saving")
         ELSE [path |-> "output", boxes_drawn |-> Len(dets)]

(***************************************************************************)
(* app.py: responses                                                       *)
(***************************************************************************)
HTTPException(status_code, detail) == [status_code |-> status_code, detail |-> detail]

JSONResponse(body) == [status_code |-> 200, content |-> body]

(* f"Inference failed: {exc}", as its two parts *)
InferenceFailed(e) == HTTPException(500, <<"Inference failed: ", e.message>>)

(* b"": the content of an upload of no bytes *)
EmptyBytes == [kind |-> "empty", w |-> 0, h |-> 0]

AppendResult_Front(batched, dets) == <<dets>> \o batched

(* batched_results.append(detections) *)
AppendResult(batched, dets) == Append(batched, dets)

vars_sev == <<sev_args, sev_ret>>

vars_est == <<est_args, est_locals, est_ret, est_cost>>

vars_match == <<pickup_detections, return_detections, iou_threshold, new_items, match_pc>>

vars_an == <<image_bytes, pc, img, model, _model, results, i, detections, returned, exc,
             get_model_calls, predict_calls>>

vars_app == <<SAVE_DEBUG_IMAGES, images, app_pc, upload_k, content, run_detections,
              batched_results, response, previews, analyses>>

vars_cmp == <<cmp_args, cmp_pc, pickup_dets, return_dets, similarity, cmp_ret>>

vars_clip == <<cuda_available, clip_cache, clip_loads, clip_calls>>

vars_ld == <<ld_pc, ld_path, ld_loaded, ld_attempts, ld_created, ld_stores, ld_calls>>

vars_srv == <<loop_task, req>>

vars_rest == <<vars_app, vars_cmp, vars_clip, vars_ld, vars_srv>>

vars == <<vars_sev, vars_est, vars_match, vars_an, fp_ties, vars_rest>>

FpTies == {"down", "up"}

IdleSev == sev_args = None /\ sev_ret = None

IdleEst == est_args = None /\ est_locals = None /\ est_ret = None /\ est_cost = None

IdleMatch ==
    /\ pickup_detections = <<>> /\ return_detections = <<>>
    /\ iou_threshold = None /\ new_items = <<>> /\ match_pc = "idle"

IdleAn ==
    /\ image_bytes = None /\ pc = "idle" /\ img = None /\ model = None /\ _model = None
    /\ results = <<>> /\ i = 0 /\ detections = <<>> /\ returned = None /\ exc = None
    /\ get_model_calls = 0 /\ predict_calls = 0

IdleApp ==
    /\ SAVE_DEBUG_IMAGES = FALSE /\ images = <<>> /\ app_pc = "idle" /\ upload_k = 0
    /\ content = None /\ run_detections = None /\ batched_results = <<>>
    /\ response = None /\ previews = <<>> /\ analyses = <<>>

IdleCmp ==
    /\ cmp_args = None /\ cmp_pc = "idle" /\ pickup_dets = None /\ return_dets = None
    /\ similarity = None /\ cmp_ret = None

IdleClip ==
    cuda_available = FALSE /\ clip_cache = None /\ clip_loads = 0 /\ clip_calls = <<>>

IdleLd ==
    /\ ld_pc = <<>> /\ ld_path = <<>> /\ ld_loaded = <<>> /\ ld_attempts = <<>> /\ ld_created = 0
    /\ ld_stores = <<>> /\ ld_calls = <<>>

IdleSrv == loop_task = "idle" /\ req = <<>>

IdleRest == IdleApp /\ IdleCmp /\ IdleClip /\ IdleLd /\ IdleSrv

(***************************************************************************)
(* get_damage_severity, applied to bounded inputs.                         *)
(***************************************************************************)
BoxLengths == {-20, 0, 30, 40, 50, 80, 100, 200, 300, 400, 1000}

ImageLengths == {0, 50, 100, 1000}

InitSeverity ==
    /\ sev_args \in [width : BoxLengths, height : BoxLengths,
                     img_width : ImageLengths, img_height : ImageLengths]
    /\ sev_ret = None
    /\ fp_ties \in FpTies
    /\ IdleEst /\ IdleMatch /\ IdleAn /\ IdleRest

SeverityCall ==
    /\ sev_ret = None
    /\ LET r == get_damage_severity(sev_args.width, sev_args.height,
                                    sev_args.img_width, sev_args.img_height)
       IN  sev_ret' = [severity |-> r[1], ratio |-> r[2]]
    /\ UNCHANGED <<sev_args, vars_est, vars_match, vars_an, fp_ties, vars_rest>>

NextSeverity == SeverityCall

SpecSeverity == InitSeverity /\ [][NextSeverity]_vars

(***************************************************************************)
(* estimate_repair_details as the analyzer's loop body calls it, applied   *)
(* to bounded inputs.                                                      *)
(***************************************************************************)
DamageTypes ==
    {s_dent, <<"D","e","n","t">>, <<"D","E","N","T">>, s_scratch,
     <<"G","l","a","s","s"," ","S","h","a","t","t","e","r">>,
     <<"r","u","s","t">>, <<"c","l","a","s","s","_","7">>,
     <<"D","e","f","a","u","l","t">>, <<" ","d","e","n","t">>, <<>>}

SeverityLabels == {"low", "medium", "high", "unknown", "severe", "Low"}

AreaRatios == {Rat(h, 100) : h \in {-10, 0, 1, 4, 12, 22, 32, 100}}

Confidences_10 == {-10, 0, 5, 9, 10, 20}

InitEstimator ==
    /\ est_args \in [damage_type : DamageTypes, severity : SeverityLabels,
                     area_ratio : AreaRatios, confidence_10 : Confidences_10]
    /\ est_locals = None /\ est_ret = None /\ est_cost = None
    /\ fp_ties \in FpTies
    /\ IdleSev /\ IdleMatch /\ IdleAn /\ IdleRest

EstimatorCall ==
    /\ est_ret = None
    /\ LET r == estimate_repair_details(est_args.damage_type, est_args.severity,
                                        est_args.area_ratio, est_args.confidence_10)
       IN  /\ est_ret' = r
           /\ est_locals' = [profile |-> TypeProfile(est_args.damage_type),
                             severity_factor |-> SeverityFactor(est_args.severity),
                             effort_multiplier_20 |-> EffortMultiplier(est_args.area_ratio),
                             confidence_factor_200 |-> ConfidenceFactor(est_args.confidence_10)]
           /\ est_cost' = IF IsRaised(r) THEN None ELSE [value |-> RepairCost(r)]
    /\ UNCHANGED <<est_args, vars_sev, vars_match, vars_an, fp_ties, vars_rest>>

NextEstimator == EstimatorCall

SpecEstimator == InitEstimator /\ [][NextEstimator]_vars

(***************************************************************************)
(* find_new_damages, applied to bounded lists of detection records.        *)
(***************************************************************************)
MaxPickup == 2

MaxReturn == 2

Det(class, x, y, width, height, severity) ==
    [class |-> class, x |-> x, y |-> y, width |-> width, height |-> height,
     severity |-> severity]

s_Scratch == <<"S","c","r","a","t","c","h">>

(* Two overlapping boxes (IoU 1/3), one class in two spellings, a second   *)
(* class, and a box of no area. *)
DetectionRecords ==
    {Det(s_scratch, 1000, 1000, 1000, 1000, "low"),
     Det(s_scratch, 1500, 1000, 1000, 1000, "medium"),
     Det(s_dent, 1000, 1000, 1000, 1000, "low"),
     Det(s_Scratch, 1000, 1000, 1000, 1000, "low"),
     Det(s_scratch, 1000, 1000, 0, 1000, "low")}

IouThresholds == {Rat(0, 10), Rat(3, 10), Rat(5, 10), Rat(10, 10)}

SeqsUpTo(S, n) == UNION {[1..k -> S] : k \in 0..n}

InitMatcher ==
    /\ pickup_detections \in SeqsUpTo(DetectionRecords, MaxPickup)
    /\ return_detections \in SeqsUpTo(DetectionRecords, MaxReturn)
    /\ iou_threshold \in IouThresholds
    /\ new_items = <<>> /\ match_pc = "call"
    (* the matcher rounds nothing *)
    /\ fp_ties = "down"
    /\ IdleSev /\ IdleEst /\ IdleAn /\ IdleRest

MatcherCall ==
    /\ match_pc = "call"
    /\ new_items' = find_new_damages(pickup_detections, return_detections, iou_threshold)
    /\ match_pc' = "returned"
    /\ UNCHANGED <<pickup_detections, return_detections, iou_threshold,
                   vars_sev, vars_est, vars_an, fp_ties, vars_rest>>

NextMatcher == MatcherCall

SpecMatcher == InitMatcher /\ [][NextMatcher]_vars

(***************************************************************************)
(* analyze_image_bytes, one call, step by step.                            *)
(***************************************************************************)
(* the most detections the detector returns for one image in the model    *)
(* (the code asks for max_det = 40) *)
MaxDet == 2

(* The bytes the caller passes: no image at all, the encoding of an empty  *)
(* image, or the encoding of a w x h image. *)
Payloads ==
    {[kind |-> "garbage", w |-> 0, h |-> 0],
     [kind |-> "image", w |-> 0, h |-> 100],
     [kind |-> "image", w |-> 100, h |-> 100],
     [kind |-> "image", w |-> 200, h |-> 100],
     [kind |-> "image", w |-> 1000, h |-> 1000]}

(* Raw detections, their corners in tenths of the image's width and        *)
(* height (so that the area ratio is a whole number of hundredths): boxes  *)
(* inside the image, one reaching outside it, one with its corners         *)
(* swapped; confidences in tenths, inside and outside [0, 1]; class ids    *)
(* that model.names maps and one it does not. *)
RawGrid ==
    {[g |-> <<1, 1, 2, 2>>, conf_10 |-> 9, cls |-> 1],
     [g |-> <<2, 2, 4, 4>>, conf_10 |-> 5, cls |-> 0],
     [g |-> <<6, 0, 10, 10>>, conf_10 |-> 10, cls |-> 7],
     [g |-> <<0, 0, 10, 10>>, conf_10 |-> 12, cls |-> 3],
     [g |-> <<5, 5, 11, 8>>, conf_10 |-> 6, cls |-> 2],
     [g |-> <<4, 4, 2, 2>>, conf_10 |-> 7, cls |-> 1]}

RawDetection(r, shape) ==
    [box |-> [x_min |-> (r.g[1] * shape[2]) \div 10, y_min |-> (r.g[2] * shape[1]) \div 10,
              x_max |-> (r.g[3] * shape[2]) \div 10, y_max |-> (r.g[4] * shape[1]) \div 10],
     conf_10 |-> r.conf_10, cls |-> r.cls]

(* What model.predict may return for the decoded image: an empty list, a   *)
(* result without boxes, or a result with the parallel arrays xyxy, conf   *)
(* and cls of up to MaxDet detections. *)
DetectorResults(decoded) ==
    {<<>>, <<[boxes |-> None]>>}
    \cup {<<[boxes |-> [xyxy |-> [k \in 1..Len(raw) |-> RawDetection(raw[k], decoded.shape).box],
                        conf |-> [k \in 1..Len(raw) |-> raw[k].conf_10],
                        cls |-> [k \in 1..Len(raw) |-> raw[k].cls]]]>> :
             raw \in SeqsUpTo(RawGrid, MaxDet)}

HasBoxes(res) == Len(res) > 0 /\ res[1].boxes # None

InitAnalyzer ==
    /\ image_bytes \in Payloads
    /\ pc = "decode"
    /\ img = None /\ model = None
    /\ _model \in {None, Handle("primary"), Handle("fallback")}
    /\ results = <<>> /\ i = 0 /\ detections = <<>>
    /\ returned = None /\ exc = None
    /\ get_model_calls = 0 /\ predict_calls = 0
    /\ fp_ties \in FpTies
    /\ IdleSev /\ IdleEst /\ IdleMatch /\ IdleRest

(* lines 26-29: decode, and raise ValueError when there is no image *)
Decode ==
    /\ pc = "decode"
    /\ img' = imdecode(image_bytes)
    /\ IF AfterDecode(img') = "raise"
       THEN /\ pc' = "raised"
            /\ exc' = Raised("ValueError", "Unable to decode image bytes")
       ELSE /\ pc' = "get_model"
            /\ exc' = exc
    /\ UNCHANGED <<image_bytes, model, _model, results, i, detections, returned,
                   get_model_calls, predict_calls, vars_sev, vars_est, vars_match, fp_ties, vars_rest>>

(* line 31: model = get_model(), which is load_model() *)
GetModel ==
    /\ pc = "get_model"
    /\ get_model_calls' = get_model_calls + 1
    /\ \E primary_loads \in BOOLEAN, fallback_loads \in BOOLEAN :
           LET r == load_model(_model, primary_loads, fallback_loads)
           IN  /\ _model' = r.cache
               /\ IF IsRaised(r.result)
                  THEN pc' = "raised" /\ exc' = r.result /\ model' = model
                  ELSE pc' = "predict" /\ exc' = exc /\ model' = r.result
    /\ UNCHANGED <<image_bytes, img, results, i, detections, returned,
                   predict_calls, vars_sev, vars_est, vars_match, fp_ties, vars_rest>>

(* lines 33-40: results = model.predict(...), which may raise *)
PredictFrom(Candidates(_)) ==
    /\ pc = "predict"
    /\ predict_calls' = predict_calls + 1
    /\ \/ /\ img # None
          /\ results' \in Candidates(img)
          /\ pc' = "unpack" /\ exc' = exc
       \/ /\ results' = results
          /\ pc' = "raised" /\ exc' = Raised("RuntimeError", "predict failed")
    /\ UNCHANGED <<image_bytes, img, model, _model, i, detections, returned,
                   get_model_calls, vars_sev, vars_est, vars_match, fp_ties, vars_rest>>

(* the detector answering with any result of up to MaxDet detections *)
Predict == PredictFrom(DetectorResults)

(* lines 42-51: detections = [], and the arrays are unpacked when there    *)
(* are boxes *)
Unpack ==
    /\ pc = "unpack"
    /\ detections' = <<>>
    /\ i' = 0
    /\ pc' = IF HasBoxes(results) THEN "loop" ELSE "return"
    /\ UNCHANGED <<image_bytes, img, model, _model, results, returned, exc,
                   get_model_calls, predict_calls, vars_sev, vars_est, vars_match, fp_ties, vars_rest>>

(* lines 53-90: one iteration of the for loop, for the detection at index  *)
(* i (0-based); an exception raised inside it ends the call *)
LoopBody ==
    /\ pc = "loop"
    /\ i < LoopRange(Len(results[1].boxes.xyxy))
    /\ LET boxes == results[1].boxes
           rec == DetectionRecord(Names(model), boxes.xyxy[i + 1], boxes.conf[i + 1],
                                  boxes.cls[i + 1], img.shape[2], img.shape[1])
       IN  IF IsRaised(rec)
           THEN pc' = "raised" /\ exc' = rec /\ detections' = detections /\ i' = i
           ELSE pc' = pc /\ exc' = exc /\ detections' = Append(detections, rec) /\ i' = i + 1
    /\ UNCHANGED <<image_bytes, img, model, _model, results, returned,
                   get_model_calls, predict_calls, vars_sev, vars_est, vars_match, fp_ties, vars_rest>>

(* the for loop ends *)
LoopExit ==
    /\ pc = "loop"
    /\ ~(i < LoopRange(Len(results[1].boxes.xyxy)))
    /\ pc' = "return"
    /\ UNCHANGED <<image_bytes, img, model, _model, results, i, detections, returned, exc,
                   get_model_calls, predict_calls, vars_sev, vars_est, vars_match, fp_ties, vars_rest>>

(* line 92: return detections *)
Return ==
    /\ pc = "return"
    /\ returned' = [value |-> detections]
    /\ pc' = "returned"
    /\ UNCHANGED <<image_bytes, img, model, _model, results, i, detections, exc,
                   get_model_calls, predict_calls, vars_sev, vars_est, vars_match, fp_ties, vars_rest>>

Next == Decode \/ GetModel \/ Predict \/ Unpack \/ LoopBody \/ LoopExit \/ Return

Spec == InitAnalyzer /\ [][Next]_vars

(***************************************************************************)
(* The service: one POST /detect request (app.py), or one call of          *)
(* analyze_pickup_return (compare_damage.py).  Both run                    *)
(* analyze_image_bytes, whose steps are the actions above.                 *)
(***************************************************************************)
(* the most files one request uploads in the model *)
MaxUploads == 2

(* What an upload's read() gives: no bytes, bytes that are no image, or    *)
(* the encoding of an image. *)
UploadContents ==
    {EmptyBytes,
     [kind |-> "garbage", w |-> 0, h |-> 0],
     [kind |-> "image", w |-> 100, h |-> 100],
     [kind |-> "image", w |-> 200, h |-> 100]}

RawScratch == [g |-> <<1, 1, 2, 2>>, conf_10 |-> 9, cls |-> 1]

RawDent == [g |-> <<2, 2, 4, 4>>, conf_10 |-> 5, cls |-> 0]

(* A few of the results model.predict may return: an empty list, a result  *)
(* without boxes, and results with no, one and two detections. *)
ServiceResults(decoded) ==
    {<<>>, <<[boxes |-> None]>>}
    \cup {<<[boxes |-> [xyxy |-> [k \in 1..Len(seen) |-> RawDetection(seen[k], decoded.shape).box],
                        conf |-> [k \in 1..Len(seen) |-> seen[k].conf_10],
                        cls |-> [k \in 1..Len(seen) |-> seen[k].cls]]]>> :
             seen \in {<<>>, <<RawScratch>>, <<RawDent, RawScratch>>}}

PredictService == PredictFrom(ServiceResults)

(* analyzer.analyze_image_bytes(payload) is entered: a fresh frame *)
CallAnalyzer(payload) ==
    /\ image_bytes' = payload
    /\ pc' = "decode"
    /\ img' = None /\ model' = None /\ results' = <<>> /\ i' = 0 /\ detections' = <<>>
    /\ returned' = None /\ exc' = None
    /\ get_model_calls' = 0 /\ predict_calls' = 0
    /\ UNCHANGED _model

(* the call that has just ended: its argument, how often it asked for the  *)
(* handle and invoked the detector, what the detector gave it, and what    *)
(* it returned or raised *)
AnalyzerCall ==
    [image_bytes |-> image_bytes, get_model_calls |-> get_model_calls,
     predict_calls |-> predict_calls, results |-> results,
     outcome |-> IF pc = "returned" THEN returned ELSE exc]

InitService ==
    /\ \/ /\ images \in SeqsUpTo(UploadContents, MaxUploads)
          /\ SAVE_DEBUG_IMAGES \in BOOLEAN
          /\ app_pc = "detect" /\ upload_k = 0 /\ content = None /\ run_detections = None
          /\ batched_results = <<>> /\ response = None /\ previews = <<>> /\ analyses = <<>>
          (* on_startup has run load_model() before any request is served *)
          /\ _model \in {Handle("primary"), Handle("fallback")}
          /\ IdleCmp
       \/ /\ cmp_args \in [pickup_bytes : UploadContents \ {EmptyBytes},
                           return_bytes : UploadContents \ {EmptyBytes},
                           iou_threshold : {Rat(3, 10)},
                           compute_similarity : BOOLEAN]
          /\ cmp_pc = "pickup" /\ pickup_dets = None /\ return_dets = None
          /\ similarity = None /\ cmp_ret = None
          /\ _model \in {None, Handle("primary"), Handle("fallback")}
          /\ IdleApp
    /\ image_bytes = None /\ pc = "idle" /\ img = None /\ model = None
    /\ results = <<>> /\ i = 0 /\ detections = <<>> /\ returned = None /\ exc = None
    /\ get_model_calls = 0 /\ predict_calls = 0
    /\ cuda_available \in BOOLEAN /\ clip_cache = None /\ clip_loads = 0 /\ clip_calls = <<>>
    /\ fp_ties \in FpTies
    /\ IdleSev /\ IdleEst /\ IdleMatch /\ IdleLd /\ IdleSrv

(* app.py lines 47-50: no files is a 400, else batched_results = [] *)
CheckImages ==
    /\ app_pc = "detect"
    /\ IF Len(images) = 0
       THEN /\ response' = HTTPException(400, <<"No images were provided">>)
            /\ app_pc' = "done"
            /\ UNCHANGED <<batched_results, upload_k>>
       ELSE /\ batched_results' = <<>>
            /\ upload_k' = 1
            /\ app_pc' = "for"
            /\ UNCHANGED response
    /\ UNCHANGED <<SAVE_DEBUG_IMAGES, images, content, run_detections, previews, analyses,
                   vars_sev, vars_est, vars_match, vars_an, fp_ties,
                   vars_cmp, vars_clip, vars_ld, vars_srv>>

(* lines 51-52: the next upload, and content = await upload.read() *)
ReadUpload ==
    /\ app_pc = "for"
    /\ upload_k <= Len(images)
    /\ content' = images[upload_k]
    /\ app_pc' = "content"
    /\ UNCHANGED <<SAVE_DEBUG_IMAGES, images, upload_k, run_detections, batched_results,
                   response, previews, analyses,
                   vars_sev, vars_est, vars_match, vars_an, fp_ties,
                   vars_cmp, vars_clip, vars_ld, vars_srv>>

(* lines 53-55: an upload of no bytes contributes [] and the loop goes on *)
SkipEmpty ==
    /\ app_pc = "content"
    /\ content = EmptyBytes
    /\ batched_results' = AppendResult(batched_results, <<>>)
    /\ upload_k' = upload_k + 1
    /\ app_pc' = "for"
    /\ UNCHANGED <<SAVE_DEBUG_IMAGES, images, content, run_detections, response,
                   previews, analyses,
                   vars_sev, vars_est, vars_match, vars_an, fp_ties,
                   vars_cmp, vars_clip, vars_ld, vars_srv>>

(* lines 56, 25-26: _run_inference(content, ...) calls the analyzer *)
RunInference ==
    /\ app_pc = "content"
    /\ content # EmptyBytes
    /\ CallAnalyzer(content)
    /\ app_pc' = "analyzing"
    /\ UNCHANGED <<SAVE_DEBUG_IMAGES, images, upload_k, content, run_detections,
                   batched_results, response, previews, analyses,
                   vars_sev, vars_est, vars_match, fp_ties,
                   vars_cmp, vars_clip, vars_ld, vars_srv>>

InferenceRaised_Skipped ==
    /\ app_pc = "analyzing"
    /\ pc = "raised"
    /\ analyses' = Append(analyses, AnalyzerCall)
    /\ upload_k' = upload_k + 1
    /\ app_pc' = "for"
    /\ UNCHANGED <<SAVE_DEBUG_IMAGES, images, content, run_detections, batched_results,
                   response, previews,
                   vars_sev, vars_est, vars_match, vars_an, fp_ties,
                   vars_cmp, vars_clip, vars_ld, vars_srv>>

InferenceRaised_Retried ==
    /\ app_pc = "analyzing"
    /\ pc = "raised"
    /\ pc' = IF predict_calls > 0 THEN "predict" ELSE "decode"
    /\ UNCHANGED <<image_bytes, img, model, _model, results, i, detections, returned, exc,
                   get_model_calls, predict_calls,
                   vars_app, vars_sev, vars_est, vars_match, fp_ties,
                   vars_cmp, vars_clip, vars_ld, vars_srv>>

(* lines 27-28: the analyzer raised; the HTTPException leaves              *)
(* _run_inference and detect_damage, and is the response *)
InferenceRaised ==
    /\ app_pc = "analyzing"
    /\ pc = "raised"
    /\ analyses' = Append(analyses, AnalyzerCall)
    /\ response' = InferenceFailed(exc)
    /\ app_pc' = "done"
    /\ UNCHANGED <<SAVE_DEBUG_IMAGES, images, upload_k, content, run_detections,
                   batched_results, previews,
                   vars_sev, vars_est, vars_match, vars_an, fp_ties,
                   vars_cmp, vars_clip, vars_ld, vars_srv>>

(* lines 26, 31: the analyzer returned; detections is bound and the flag   *)
(* is tested *)
InferenceReturned ==
    /\ app_pc = "analyzing"
    /\ pc = "returned"
    /\ analyses' = Append(analyses, AnalyzerCall)
    /\ run_detections' = returned
    /\ app_pc' = IF SAVE_DEBUG_IMAGES THEN "preview" ELSE "return"
    /\ UNCHANGED <<SAVE_DEBUG_IMAGES, images, upload_k, content, batched_results,
                   response, previews,
                   vars_sev, vars_est, vars_match, vars_an, fp_ties,
                   vars_cmp, vars_clip, vars_ld, vars_srv>>

SavePreview_Propagating ==
    /\ app_pc = "preview"
    /\ \E writable \in BOOLEAN :
           LET saved == save_image_with_bboxes(content, run_detections.value, writable)
           IN  /\ previews' = Append(previews, [image_bytes |-> content,
                                                detections |-> run_detections.value,
                                                outcome |-> saved])
               /\ IF IsRaised(saved)
                  THEN /\ response' = HTTPException(500, <<saved.message>>)
                       /\ app_pc' = "done"
                  ELSE /\ response' = response
                       /\ app_pc' = "return"
    /\ UNCHANGED <<SAVE_DEBUG_IMAGES, images, upload_k, content, run_detections,
                   batched_results, analyses,
                   vars_sev, vars_est, vars_match, vars_an, fp_ties,
                   vars_cmp, vars_clip, vars_ld, vars_srv>>

(* lines 32-36: save_image_with_bboxes is called; what it raises is        *)
(* printed and dropped *)
SavePreview ==
    /\ app_pc = "preview"
    /\ \E writable \in BOOLEAN :
           previews' = Append(previews,
                              [image_bytes |-> content,
                               detections |-> run_detections.value,
                               outcome |-> save_image_with_bboxes(content, run_detections.value,
                                                                  writable)])
    /\ app_pc' = "return"
    /\ UNCHANGED <<SAVE_DEBUG_IMAGES, images, upload_k, content, run_detections,
                   batched_results, response, analyses,
                   vars_sev, vars_est, vars_match, vars_an, fp_ties,
                   vars_cmp, vars_clip, vars_ld, vars_srv>>

(* lines 38, 57: _run_inference returns detections, which are appended *)
AppendDetections ==
    /\ app_pc = "return"
    /\ batched_results' = AppendResult(batched_results, run_detections.value)
    /\ upload_k' = upload_k + 1
    /\ app_pc' = "for"
    /\ UNCHANGED <<SAVE_DEBUG_IMAGES, images, content, run_detections, response,
                   previews, analyses,
                   vars_sev, vars_est, vars_match, vars_an, fp_ties,
                   vars_cmp, vars_clip, vars_ld, vars_srv>>

(* line 59: the loop is over; the response carries batched_results *)
Respond ==
    /\ app_pc = "for"
    /\ upload_k > Len(images)
    /\ response' = JSONResponse(batched_results)
    /\ app_pc' = "done"
    /\ UNCHANGED <<SAVE_DEBUG_IMAGES, images, upload_k, content, run_detections,
                   batched_results, previews, analyses,
                   vars_sev, vars_est, vars_match, vars_an, fp_ties,
                   vars_cmp, vars_clip, vars_ld, vars_srv>>

(* compare_damage.py line 128: pickup_dets = analyze_image_bytes(pickup_bytes) *)
AnalyzePickup ==
    /\ cmp_pc = "pickup"
    /\ CallAnalyzer(cmp_args.pickup_bytes)
    /\ cmp_pc' = "pickup_running"
    /\ UNCHANGED <<cmp_args, pickup_dets, return_dets, similarity, cmp_ret,
                   vars_app, vars_sev, vars_est, vars_match, fp_ties,
                   vars_clip, vars_ld, vars_srv>>

(* line 128 returns, and line 129: return_dets = analyze_image_bytes(return_bytes) *)
AnalyzeReturn ==
    /\ cmp_pc = "pickup_running"
    /\ pc = "returned"
    /\ analyses' = Append(analyses, AnalyzerCall)
    /\ pickup_dets' = returned
    /\ CallAnalyzer(cmp_args.return_bytes)
    /\ cmp_pc' = "return_running"
    /\ UNCHANGED <<cmp_args, return_dets, similarity, cmp_ret,
                   SAVE_DEBUG_IMAGES, images, app_pc, upload_k, content, run_detections,
                   batched_results, response, previews,
                   vars_sev, vars_est, vars_match, fp_ties,
                   vars_clip, vars_ld, vars_srv>>

(* either analysis raised: nothing catches it, analyze_pickup_return ends  *)
(* with that exception *)
AnalysisRaised ==
    /\ cmp_pc \in {"pickup_running", "return_running"}
    /\ pc = "raised"
    /\ analyses' = Append(analyses, AnalyzerCall)
    /\ cmp_ret' = exc
    /\ cmp_pc' = "raised"
    /\ UNCHANGED <<cmp_args, pickup_dets, return_dets, similarity,
                   SAVE_DEBUG_IMAGES, images, app_pc, upload_k, content, run_detections,
                   batched_results, response, previews,
                   vars_sev, vars_est, vars_match, vars_an, fp_ties,
                   vars_clip, vars_ld, vars_srv>>

(* a cosine similarity, in hundredths *)
SimilarityScores == {[value |-> 87]}

ScorerOutcomes == SimilarityScores \cup {Raised("RuntimeError", "encode_image failed")}

DefaultClipArgs(pickup, ret) ==
    [pickup_bytes |-> pickup, return_bytes |-> ret, model_name |-> "ViT-B-32",
     pretrained |-> "laion2b_s34b_b79k", device |-> None]

(* the entry clip_calls gets for one call of compute_similarity_bytes *)
ClipCallRecord(args, call) ==
    [args |-> args, key |-> call.key, created |-> call.created, model |-> call.model,
     result |-> call.result]

(* line 129 returns, and lines 131-133: similarity = None, or the score of *)
(* compute_similarity_bytes with its default arguments, which may raise *)
Similarity ==
    /\ cmp_pc = "return_running"
    /\ pc = "returned"
    /\ analyses' = Append(analyses, AnalyzerCall)
    /\ return_dets' = returned
    /\ IF cmp_args.compute_similarity
       THEN \E creates \in BOOLEAN, encoded \in ScorerOutcomes :
                LET args == DefaultClipArgs(cmp_args.pickup_bytes, cmp_args.return_bytes)
                    call == compute_similarity_bytes(clip_cache, args, cuda_available,
                                                     creates, clip_loads + 1, encoded)
                IN  /\ clip_cache' = call.slot
                    /\ clip_loads' = IF call.created THEN clip_loads + 1 ELSE clip_loads
                    /\ clip_calls' = Append(clip_calls, ClipCallRecord(args, call))
                    /\ IF IsRaised(call.result)
                       THEN /\ cmp_ret' = call.result
                            /\ cmp_pc' = "raised"
                            /\ similarity' = similarity
                       ELSE /\ cmp_ret' = cmp_ret
                            /\ cmp_pc' = "diff"
                            /\ similarity' = call.result
       ELSE /\ similarity' = None
            /\ cmp_pc' = "diff"
            /\ UNCHANGED <<cmp_ret, clip_cache, clip_loads, clip_calls>>
    /\ UNCHANGED <<cmp_args, pickup_dets, cuda_available,
                   SAVE_DEBUG_IMAGES, images, app_pc, upload_k, content, run_detections,
                   batched_results, response, previews,
                   vars_sev, vars_est, vars_match, vars_an, fp_ties,
                   vars_ld, vars_srv>>

(* lines 135-141: the new damages, and the dictionary returned *)
NewDamages ==
    /\ cmp_pc = "diff"
    /\ cmp_ret' = [value |->
                     [similarity |-> similarity,
                      pickup_detections |-> pickup_dets.value,
                      return_detections |-> return_dets.value,
                      new_damages |-> find_new_damages(pickup_dets.value, return_dets.value,
                                                       cmp_args.iou_threshold)]]
    /\ cmp_pc' = "returned"
    /\ UNCHANGED <<cmp_args, pickup_dets, return_dets, similarity,
                   vars_app, vars_sev, vars_est, vars_match, vars_an, fp_ties,
                   vars_clip, vars_ld, vars_srv>>

NextService ==
    \/ CheckImages \/ ReadUpload \/ SkipEmpty \/ RunInference
    \/ InferenceRaised \/ InferenceReturned \/ SavePreview \/ AppendDetections \/ Respond
    \/ AnalyzePickup \/ AnalyzeReturn \/ AnalysisRaised \/ Similarity \/ NewDamages
    \/ Decode \/ GetModel \/ PredictService \/ Unpack \/ LoopBody \/ LoopExit \/ Return

SpecService == InitService /\ [][NextService]_vars

(***************************************************************************)
(* compute_similarity_bytes, called again and again in one process with    *)
(* bounded arguments.                                                      *)
(***************************************************************************)
(* the most calls made in the model *)
MaxClipCalls == 3

DeviceArgs == {None, [value |-> "cpu"], [value |-> "cuda"]}

ClipArgs ==
    [pickup_bytes : {[kind |-> "image", w |-> 100, h |-> 100]},
     return_bytes : {[kind |-> "image", w |-> 200, h |-> 100]},
     model_name : {"ViT-B-32", "RN50"},
     pretrained : {"laion2b_s34b_b79k"},
     device : DeviceArgs]

InitClip ==
    /\ cuda_available \in BOOLEAN
    /\ clip_cache = None /\ clip_loads = 0 /\ clip_calls = <<>>
    (* the scorer's floats are not modelled *)
    /\ fp_ties = "down"
    /\ IdleSev /\ IdleEst /\ IdleMatch /\ IdleAn /\ IdleApp /\ IdleCmp /\ IdleLd /\ IdleSrv

(* lines 38-63: one call, whose model comes from the cache or is created   *)
(* (which may fail), and whose encoding may fail *)
SimilarityCall ==
    /\ Len(clip_calls) < MaxClipCalls
    /\ \E args \in ClipArgs, creates \in BOOLEAN, encoded \in ScorerOutcomes :
           LET call == compute_similarity_bytes(clip_cache, args, cuda_available,
                                                creates, clip_loads + 1, encoded)
           IN  /\ clip_cache' = call.slot
               /\ clip_loads' = IF call.created THEN clip_loads + 1 ELSE clip_loads
               /\ clip_calls' = Append(clip_calls, ClipCallRecord(args, call))
    /\ UNCHANGED <<cuda_available, vars_sev, vars_est, vars_match, vars_an, fp_ties,
                   vars_app, vars_cmp, vars_ld, vars_srv>>

NextClip == SimilarityCall

SpecClip == InitClip /\ [][NextClip]_vars

(***************************************************************************)
(* load_model, called by threads of one process, step by step.  Nothing in *)
(* model_loader.py makes the test of _model and the assignment to it one   *)
(* step, so the steps of different threads interleave.                     *)
(***************************************************************************)
(* the most calls of load_model made in the model *)
MaxLoadCalls == 3

Threads == {"t1", "t2"}

DEFAULT_MODEL_PATH == "runs/detect/cardd2/weights/best.pt"

ModelPaths == {DEFAULT_MODEL_PATH, "custom.pt"}

(* the instance YOLO(path) builds; the serial tells two builds apart *)
YOLO(path, serial) == [weights |-> path, serial |-> serial]

LoaderStarts(threads) ==
    /\ ld_pc = [t \in threads |-> "idle"]
    /\ ld_path = [t \in threads |-> DEFAULT_MODEL_PATH]
    /\ ld_loaded = [t \in threads |-> None]
    /\ ld_attempts = [t \in threads |-> <<>>]
    /\ ld_created = 0 /\ ld_stores = <<>> /\ ld_calls = <<>>
    (* the process has just started: line 6 *)
    /\ image_bytes = None /\ pc = "idle" /\ img = None /\ model = None /\ _model = None
    /\ results = <<>> /\ i = 0 /\ detections = <<>> /\ returned = None /\ exc = None
    /\ get_model_calls = 0 /\ predict_calls = 0
    (* the loader rounds nothing *)
    /\ fp_ties = "down"
    /\ IdleSev /\ IdleEst /\ IdleMatch /\ IdleApp /\ IdleCmp /\ IdleClip /\ IdleSrv

(* calls that do not overlap: one thread *)
InitLoader == LoaderStarts({"t1"})

(* calls that may overlap: two threads *)
InitLoaderThreads == LoaderStarts(Threads)

(* the calls begun so far *)
LoadCallsBegun == Len(ld_calls) + Cardinality({t \in DOMAIN ld_pc : ld_pc[t] # "idle"})

(* the entry of the log for the call thread t ends with `result` *)
LoadCall(t, result) ==
    [thread |-> t, model_path |-> ld_path[t], attempts |-> ld_attempts[t], result |-> result]

(* lines 19-24: thread t calls load_model(model_path) (get_model() calls   *)
(* it with the default) and tests _model *)
TestCache(t) ==
    /\ ld_pc[t] = "idle"
    /\ LoadCallsBegun < MaxLoadCalls
    /\ \E model_path \in ModelPaths : ld_path' = [ld_path EXCEPT ![t] = model_path]
    /\ ld_attempts' = [ld_attempts EXCEPT ![t] = <<>>]
    /\ ld_loaded' = [ld_loaded EXCEPT ![t] = None]
    /\ ld_pc' = [ld_pc EXCEPT ![t] = IF _model = None THEN "primary" ELSE "return"]
    /\ UNCHANGED <<ld_created, ld_stores, ld_calls,
                   vars_sev, vars_est, vars_match, vars_an, fp_ties,
                   vars_app, vars_cmp, vars_clip, vars_srv>>

LoadPrimary_FallsThrough(t) ==
    /\ ld_pc[t] = "primary"
    /\ ld_attempts' = [ld_attempts EXCEPT ![t] = Append(@, ld_path[t])]
    /\ \E loads \in BOOLEAN :
           IF loads
           THEN /\ ld_created' = ld_created + 1
                /\ ld_loaded' = [ld_loaded EXCEPT ![t] = YOLO(ld_path[t], ld_created + 1)]
                /\ ld_pc' = [ld_pc EXCEPT ![t] = "fallback"]
           ELSE /\ ld_pc' = [ld_pc EXCEPT ![t] = "fallback"]
                /\ UNCHANGED <<ld_created, ld_loaded>>
    /\ UNCHANGED <<ld_path, ld_stores, ld_calls,
                   vars_sev, vars_est, vars_match, vars_an, fp_ties,
                   vars_app, vars_cmp, vars_clip, vars_srv>>

(* lines 25-27: _load_weights(model_path) returns an instance or raises *)
LoadPrimary(t) ==
    /\ ld_pc[t] = "primary"
    /\ ld_attempts' = [ld_attempts EXCEPT ![t] = Append(@, ld_path[t])]
    /\ \E loads \in BOOLEAN :
           IF loads
           THEN /\ ld_created' = ld_created + 1
                /\ ld_loaded' = [ld_loaded EXCEPT ![t] = YOLO(ld_path[t], ld_created + 1)]
                /\ ld_pc' = [ld_pc EXCEPT ![t] = "store"]
           ELSE /\ ld_pc' = [ld_pc EXCEPT ![t] = "fallback"]
                /\ UNCHANGED <<ld_created, ld_loaded>>
    /\ UNCHANGED <<ld_path, ld_stores, ld_calls,
                   vars_sev, vars_est, vars_match, vars_an, fp_ties,
                   vars_app, vars_cmp, vars_clip, vars_srv>>

(* lines 28-35: _load_weights("yolov8n.pt") returns an instance, or raises *)
(* and the exception leaves load_model *)
LoadFallback(t) ==
    /\ ld_pc[t] = "fallback"
    /\ ld_attempts' = [ld_attempts EXCEPT ![t] = Append(@, "yolov8n.pt")]
    /\ \E loads \in BOOLEAN :
           IF loads
           THEN /\ ld_created' = ld_created + 1
                /\ ld_loaded' = [ld_loaded EXCEPT ![t] = YOLO("yolov8n.pt", ld_created + 1)]
                /\ ld_pc' = [ld_pc EXCEPT ![t] = "store"]
                /\ UNCHANGED ld_calls
           ELSE /\ ld_calls' = Append(ld_calls,
                                      [LoadCall(t, Raised("Exception", "cannot load yolov8n.pt"))
                                           EXCEPT !.attempts = ld_attempts'[t]])
                /\ ld_pc' = [ld_pc EXCEPT ![t] = "idle"]
                /\ UNCHANGED <<ld_created, ld_loaded>>
    /\ UNCHANGED <<ld_path, ld_stores,
                   vars_sev, vars_est, vars_match, vars_an, fp_ties,
                   vars_app, vars_cmp, vars_clip, vars_srv>>

(* lines 26 and 35: the assignment _model = <what was loaded> *)
StoreModel(t) ==
    /\ ld_pc[t] = "store"
    /\ _model' = ld_loaded[t]
    /\ ld_stores' = Append(ld_stores, [thread |-> t, handle |-> ld_loaded[t]])
    /\ ld_pc' = [ld_pc EXCEPT ![t] = "return"]
    /\ UNCHANGED <<ld_path, ld_loaded, ld_attempts, ld_created, ld_calls,
                   image_bytes, pc, img, model, results, i, detections, returned, exc,
                   get_model_calls, predict_calls,
                   vars_sev, vars_est, vars_match, fp_ties,
                   vars_app, vars_cmp, vars_clip, vars_srv>>

(* line 36: return _model *)
ReturnModel(t) ==
    /\ ld_pc[t] = "return"
    /\ ld_calls' = Append(ld_calls, LoadCall(t, _model))
    /\ ld_pc' = [ld_pc EXCEPT ![t] = "idle"]
    /\ UNCHANGED <<ld_path, ld_loaded, ld_attempts, ld_created, ld_stores,
                   vars_sev, vars_est, vars_match, vars_an, fp_ties,
                   vars_app, vars_cmp, vars_clip, vars_srv>>

NextLoader ==
    \/ \E t \in DOMAIN ld_pc : TestCache(t)
    \/ \E t \in DOMAIN ld_pc : LoadPrimary(t)
    \/ \E t \in DOMAIN ld_pc : LoadFallback(t)
    \/ \E t \in DOMAIN ld_pc : StoreModel(t)
    \/ \E t \in DOMAIN ld_pc : ReturnModel(t)

SpecLoader == InitLoader /\ [][NextLoader]_vars

SpecLoaderThreads == InitLoaderThreads /\ [][NextLoader]_vars

(***************************************************************************)
(* The server process: requests to /detect and /analyze handled on one     *)
(* event loop.  Both handlers and _run_inference are coroutines            *)
(* (async def); a coroutine gives the loop's thread back only where it     *)
(* awaits something that suspends, which here is the read of an upload.    *)
(* analyzer.analyze_image_bytes is an ordinary function called from        *)
(* _run_inference (line 26) with no executor or thread in between, so the  *)
(* detector runs on the loop's thread, inside the handler's step.          *)
(* (A read that completes without suspending only takes interleavings      *)
(* away.)                                                                  *)
(***************************************************************************)
Requests == {"r1", "r2"}

(* A request as it arrives: its endpoint and the number of files it        *)
(* uploads, none read yet, no response yet (status_code 0). *)
IncomingRequests ==
    {[endpoint |-> "/detect", uploads |-> n, at |-> "arrived", status_code |-> 0] :
         n \in 1..MaxUploads}
    \cup {[endpoint |-> "/analyze", uploads |-> 1, at |-> "arrived", status_code |-> 0]}

InitServer ==
    /\ loop_task = "idle"
    /\ req \in [Requests -> IncomingRequests]
    (* the server rounds nothing *)
    /\ fp_ties = "down"
    /\ IdleSev /\ IdleEst /\ IdleMatch /\ IdleAn /\ IdleApp /\ IdleCmp /\ IdleClip /\ IdleLd

(* lines 42-52 and 63-73: the loop starts the handler of request r, which  *)
(* runs to its first await, the read of the upload, and is suspended *)
Accept(r) ==
    /\ loop_task = "idle"
    /\ req[r].at = "arrived"
    /\ req' = [req EXCEPT ![r].at = "reading"]
    /\ UNCHANGED <<loop_task, vars_sev, vars_est, vars_match, vars_an, fp_ties,
                   vars_app, vars_cmp, vars_clip, vars_ld>>

(* the awaited read is done: the handler can be resumed *)
ReadCompletes(r) ==
    /\ req[r].at = "reading"
    /\ req' = [req EXCEPT ![r].at = "ready"]
    /\ UNCHANGED <<loop_task, vars_sev, vars_est, vars_match, vars_an, fp_ties,
                   vars_app, vars_cmp, vars_clip, vars_ld>>

(* lines 53-56 and 92-95: the loop resumes the handler.  Without content   *)
(* /detect appends [] and goes on to the next upload or to its response,   *)
(* and /analyze answers 400; with content the handler enters               *)
(* _run_inference and the analyzer, and the detector call begins on the    *)
(* loop's thread *)
Resume(r) ==
    /\ loop_task = "idle"
    /\ req[r].at = "ready"
    /\ \E has_content \in BOOLEAN :
           IF has_content
           THEN /\ req' = [req EXCEPT ![r].at = "inferring"]
                /\ loop_task' = r
           ELSE /\ req' = [req EXCEPT
                               ![r] = IF @.endpoint = "/analyze"
                                      THEN [@ EXCEPT !.at = "responded", !.status_code = 400]
                                      ELSE IF @.uploads > 1
                                           THEN [@ EXCEPT !.at = "reading",
                                                          !.uploads = @ - 1]
                                           ELSE [@ EXCEPT !.at = "responded",
                                                          !.uploads = 0,
                                                          !.status_code = 200]]
                /\ loop_task' = loop_task
    /\ UNCHANGED <<vars_sev, vars_est, vars_match, vars_an, fp_ties,
                   vars_app, vars_cmp, vars_clip, vars_ld>>

(* lines 26-38 and 57-59, 96: the analyzer returns or raises; the handler  *)
(* answers 500, or goes on to the next upload (and is suspended in its     *)
(* read), or answers 200.  Only now is the loop's thread free again *)
DetectorReturns(r) ==
    /\ loop_task = r
    /\ req[r].at = "inferring"
    /\ \E raised \in BOOLEAN :
           req' = [req EXCEPT
                       ![r] = IF raised
                              THEN [@ EXCEPT !.at = "responded", !.status_code = 500]
                              ELSE IF @.uploads > 1
                                   THEN [@ EXCEPT !.at = "reading", !.uploads = @ - 1]
                                   ELSE [@ EXCEPT !.at = "responded", !.uploads = 0,
                                                  !.status_code = 200]]
    /\ loop_task' = "idle"
    /\ UNCHANGED <<vars_sev, vars_est, vars_match, vars_an, fp_ties,
                   vars_app, vars_cmp, vars_clip, vars_ld>>

NextServer ==
    \/ \E r \in Requests : Accept(r)
    \/ \E r \in Requests : ReadCompletes(r)
    \/ \E r \in Requests : Resume(r)
    \/ \E r \in Requests : DetectorReturns(r)

SpecServer == InitServer /\ [][NextServer]_vars

(***************************************************************************)
(* Properties.                                                             *)
(***************************************************************************)
Range(seq) == {seq[k] : k \in 1..Len(seq)}

RECURSIVE IsSubseqFrom(_, _, _, _)
(* a[j..] is b[k..] with some elements left out *)
IsSubseqFrom(a, j, b, k) ==
    IF j > Len(a) THEN TRUE
    ELSE IF k > Len(b) THEN FALSE
    ELSE IF a[j] = b[k] THEN IsSubseqFrom(a, j + 1, b, k + 1)
    ELSE IsSubseqFrom(a, j, b, k + 1)

IsSubseq(a, b) == IsSubseqFrom(a, 1, b, 1)

(* some pickup detection of exactly det's class overlaps it with IoU >= t *)
HasSameClassOverlap(det, pickup, t) ==
    \E j \in 1..Len(pickup) :
        /\ pickup[j].class = det.class
        /\ LET iou == _iou(_det_to_xyxy(det), _det_to_xyxy(pickup[j]))
           IN  iou.n * t.d >= t.n * iou.d

(* C1: find_new_damages reports a return detection as new if and only if   *)
(* no pickup detection with exactly the same class string has IoU >= t     *)
(* with it; pickup candidates are never consumed, and a return detection   *)
(* whose class has no pickup detection (an empty pickup list included) is  *)
(* always new.                                                             *)
C1_NewIffNoSameClassOverlap ==
    match_pc = "returned" =>
        LET IsNew(det) == ~HasSameClassOverlap(det, pickup_detections, iou_threshold)
        IN  /\ new_items = SelectSeq(return_detections, IsNew)
            /\ \A k \in 1..Len(return_detections) :
                   (~\E j \in 1..Len(pickup_detections) :
                        pickup_detections[j].class = return_detections[k].class)
                       => return_detections[k] \in Range(new_items)

(* one pickup detection excludes two different return detections *)
C1_Witness ==
    /\ match_pc = "returned"
    /\ Len(pickup_detections) = 1 /\ Len(return_detections) = 2
    /\ return_detections[1] # return_detections[2]
    /\ iou_threshold = Rat(3, 10)
    /\ new_items = <<>>

(* C2: the result of find_new_damages is a subsequence of the return list  *)
(* (its records unchanged, in the return list's order, none more often     *)
(* than in the input); with an empty pickup list it is the whole return    *)
(* list, with an empty return list it is empty; and the call changes       *)
(* neither input list.                                                     *)
C2_ResultIsSubsequence ==
    /\ [](match_pc = "returned" =>
            /\ IsSubseq(new_items, return_detections)
            /\ (pickup_detections = <<>> => new_items = return_detections)
            /\ (return_detections = <<>> => new_items = <<>>))
    /\ [][/\ pickup_detections' = pickup_detections
          /\ return_detections' = return_detections]_vars

C2_Witness ==
    /\ match_pc = "returned"
    /\ pickup_detections # <<>>
    /\ Len(new_items) = 2 /\ new_items[1] # new_items[2]
    /\ new_items = return_detections

(* C3: for thresholds t1 <= t2 every record find_new_damages reports new   *)
(* at t1 it also reports new at t2, so raising the threshold never makes   *)
(* the result smaller.                                                     *)
C3_MonotonicInThreshold ==
    match_pc = "returned" =>
        \A t2 \in IouThresholds :
            ~RatLt(t2, iou_threshold) =>
                LET at_t2 == find_new_damages(pickup_detections, return_detections, t2)
                IN  /\ IsSubseq(new_items, at_t2)
                    /\ Len(new_items) <= Len(at_t2)

(* the result at 0.3 is empty and the result at 0.5 is not *)
C3_Witness ==
    /\ match_pc = "returned"
    /\ iou_threshold = Rat(3, 10)
    /\ new_items = <<>>
    /\ find_new_damages(pickup_detections, return_detections, Rat(5, 10)) # <<>>

SameClassAndBox(a, b) ==
    /\ a.class = b.class /\ a.x = b.x /\ a.y = b.y
    /\ a.width = b.width /\ a.height = b.height

(* C9: _iou(box, box) = 1 for a box of positive width and height, so a     *)
(* return detection of positive width and height whose class and box are   *)
(* those of some pickup detection is not in the result, for every          *)
(* threshold in (0, 1].                                                    *)
C9_IdenticalBoxIsExcluded ==
    match_pc = "returned" =>
        \A det \in Range(return_detections) \cup Range(pickup_detections) :
            (det.width > 0 /\ det.height > 0) =>
                LET iou == _iou(_det_to_xyxy(det), _det_to_xyxy(det))
                IN  /\ iou.n = iou.d /\ iou.d > 0
                    /\ ( /\ det \in Range(return_detections)
                         /\ \E j \in 1..Len(pickup_detections) :
                                SameClassAndBox(det, pickup_detections[j])
                         /\ iou_threshold.n > 0
                         /\ iou_threshold.n <= iou_threshold.d )
                       => det \notin Range(new_items)

C9_Witness ==
    /\ match_pc = "returned"
    /\ iou_threshold = Rat(10, 10)
    /\ Len(return_detections) = 1
    /\ return_detections[1].width > 0 /\ return_detections[1].height > 0
    /\ \E j \in 1..Len(pickup_detections) :
           SameClassAndBox(return_detections[1], pickup_detections[j])
    /\ new_items = <<>>

ScenarioA == [width |-> 200, height |-> 200, img_width |-> 1000, img_height |-> 1000]

(* C5: with positive image dimensions get_damage_severity returns a        *)
(* severity in {low, medium, high} and the ratio damage_area / image_area  *)
(* >= 0, decided in this order: low when damage_area is below 1500; else   *)
(* low when ratio < max(0.04, 2500/image_area); else medium when           *)
(* ratio < max(0.12, 8000/image_area); else high.  A 200x200 box in a      *)
(* 1000x1000 image is medium, and a box under 1500 pixels is always low.   *)
(* (ratio < max(a/b, c/image_area) is stated as                            *)
(* b * damage_area < a * image_area or damage_area < c.)                   *)
C5_SeverityDecision ==
    (sev_ret # None /\ sev_args.img_width > 0 /\ sev_args.img_height > 0) =>
        LET w == IF sev_args.width > 0 THEN sev_args.width ELSE 0
            h == IF sev_args.height > 0 THEN sev_args.height ELSE 0
            damage_area == w * h
            image_area == sev_args.img_width * sev_args.img_height
            below_low == 25 * damage_area < image_area \/ damage_area < 2500
            below_medium == 25 * damage_area < 3 * image_area \/ damage_area < 8000
        IN  /\ sev_ret.severity \in {"low", "medium", "high"}
            /\ sev_ret.ratio.n >= 0 /\ sev_ret.ratio.d > 0
            /\ sev_ret.ratio = Rat(damage_area, image_area)
            /\ sev_ret.severity =
                   IF damage_area < 1500 THEN "low"
                   ELSE IF below_low THEN "low"
                   ELSE IF below_medium THEN "medium"
                   ELSE "high"
            /\ (damage_area < 1500 => sev_ret.severity = "low")
            /\ (sev_args = ScenarioA =>
                    sev_ret.severity = "medium" /\ 25 * sev_ret.ratio.n = sev_ret.ratio.d)

C5_Witness == sev_ret # None /\ sev_args = ScenarioA /\ sev_ret.severity = "medium"

(* C6: for every damage type, severity label, area_ratio >= 0 and          *)
(* confidence, estimate_repair_details returns a total_cost that is a      *)
(* non-negative integer multiple of 10, and the record's repair_cost is    *)
(* that total_cost.                                                        *)
C6_TotalCostMultipleOfTen ==
    (est_ret # None /\ est_args.area_ratio.n >= 0) =>
        /\ ~IsRaised(est_ret)
        /\ est_ret.total_cost \in Nat
        /\ est_ret.total_cost % 10 = 0
        /\ est_cost = [value |-> est_ret.total_cost]

ScenarioB ==
    [damage_type |-> s_scratch, severity |-> "low", area_ratio |-> Rat(1, 100),
     confidence_10 |-> 9]

C6_Witness ==
    /\ est_ret # None /\ ~IsRaised(est_ret)
    /\ est_args = ScenarioB /\ est_ret.total_cost = 80 /\ est_cost = [value |-> 80]

(* a equals the lower-case string b up to the case of its letters *)
EqualIgnoringCase(a, b) ==
    /\ Len(a) = Len(b)
    /\ \A k \in 1..Len(a) :
           a[k] = b[k] \/ (a[k] \in DOMAIN UpperToLower /\ UpperToLower[a[k]] = b[k])

DefaultProfile == [base_hours_10 |-> 10, material_factor_10 |-> 9]

(* C7: estimate_repair_details returns an estimate and raises nothing: a   *)
(* type outside the vocabulary gets the default profile (1.0, 0.9), a      *)
(* known type its own profile whatever its letter case, a severity outside *)
(* {low, medium, high, unknown} the load 0.85, and confidence_factor is    *)
(* within [0.55, 1.1] for every confidence.                                *)
C7_EstimatorNeverFails ==
    est_ret # None =>
        /\ ~IsRaised(est_ret)
        /\ est_ret.total_cost \in Int
        /\ \A k \in DOMAIN TYPE_COMPLEXITY :
               EqualIgnoringCase(est_args.damage_type, k) =>
                   est_locals.profile = TYPE_COMPLEXITY[k]
        /\ (~\E k \in DOMAIN TYPE_COMPLEXITY : EqualIgnoringCase(est_args.damage_type, k)) =>
               est_locals.profile = DefaultProfile
        /\ (est_args.severity \notin {"low", "medium", "high", "unknown"} =>
               est_locals.severity_factor = [load_20 |-> 17])
        /\ 110 <= est_locals.confidence_factor_200
        /\ est_locals.confidence_factor_200 <= 220
        /\ 55 <= est_ret.confidence_factor /\ est_ret.confidence_factor <= 110

C7_Witness ==
    /\ est_ret # None /\ ~IsRaised(est_ret)
    /\ est_args.damage_type = <<"r","u","s","t">> /\ est_args.severity = "severe"
    /\ est_args.confidence_10 = 20
    /\ est_locals.profile = DefaultProfile /\ est_locals.confidence_factor_200 = 220

(* v (in units of 1/10000) is n/d rounded to 4 decimals *)
IsRounded4(v, n, d) ==
    LET diff == v * d - n * 10000
    IN  2 * (IF diff < 0 THEN -diff ELSE diff) <= d

s_class_ == <<"c","l","a","s","s","_">>

(* C4: for an image that decodes, analyze_image_bytes returns exactly one  *)
(* record per raw detection, in the detector's order: the k-th record      *)
(* carries the class name of the k-th class id, the k-th confidence and    *)
(* the k-th box divided by the image's width and height; nothing is        *)
(* dropped, duplicated or reordered (and with no boxes the list is empty). *)
C4_OneRecordPerDetection ==
    /\ (pc = "loop" => Len(detections) = i)
    /\ pc = "returned" =>
          IF HasBoxes(results)
          THEN LET boxes == results[1].boxes
                   names == Names(model)
                   img_w == image_bytes.w
                   img_h == image_bytes.h
               IN  /\ Len(returned.value) = Len(boxes.xyxy)
                   /\ \A k \in 1..Len(boxes.xyxy) :
                          LET rec == returned.value[k]
                              box == boxes.xyxy[k]
                          IN  /\ rec.class = IF boxes.cls[k] \in DOMAIN names
                                             THEN names[boxes.cls[k]]
                                             ELSE s_class_ \o IntToStr(boxes.cls[k])
                              /\ (boxes.cls[k] = 7 => rec.class = s_class_ \o <<"7">>)
                              /\ rec.type = rec.class
                              /\ rec.conf = 1000 * boxes.conf[k]
                              /\ rec.confidence = 1000 * boxes.conf[k]
                              /\ IsRounded4(rec.x, box.x_min, img_w)
                              /\ IsRounded4(rec.y, box.y_min, img_h)
                              /\ IsRounded4(rec.width, box.x_max - box.x_min, img_w)
                              /\ IsRounded4(rec.height, box.y_max - box.y_min, img_h)
          ELSE returned.value = <<>>

C4_Witness ==
    /\ pc = "returned" /\ HasBoxes(results)
    /\ Len(results[1].boxes.xyxy) = 2
    /\ Len(returned.value) = 2
    /\ returned.value[1].class = s_scratch
    /\ returned.value[2].class = s_class_ \o <<"7">>

InUnitInterval(v) == 0 <= v /\ v <= 10000

(* C8: whenever a raw box lies within the image (0 <= x_min <= x_max <= W  *)
(* and 0 <= y_min <= y_max <= H, W, H > 0), the fields x, y, width and     *)
(* height of its record, rounded to 4 decimals, lie in [0, 1].             *)
C8_NormalizedBoxInUnitInterval ==
    \A k \in 1..Len(detections) :
        LET box == results[1].boxes.xyxy[k]
            rec == detections[k]
        IN  ( /\ image_bytes.w > 0 /\ image_bytes.h > 0
              /\ 0 <= box.x_min /\ box.x_min <= box.x_max /\ box.x_max <= image_bytes.w
              /\ 0 <= box.y_min /\ box.y_min <= box.y_max /\ box.y_max <= image_bytes.h )
            => /\ InUnitInterval(rec.x) /\ InUnitInterval(rec.y)
               /\ InUnitInterval(rec.width) /\ InUnitInterval(rec.height)

(* a box in the right part of a 200 x 100 image, reaching its border *)
C8_Witness ==
    /\ pc = "returned" /\ Len(returned.value) = 1
    /\ image_bytes.w = 200 /\ image_bytes.h = 100
    /\ results[1].boxes.xyxy[1] = [x_min |-> 120, y_min |-> 0, x_max |-> 200, y_max |-> 100]
    /\ returned.value[1].x = 6000 /\ returned.value[1].width = 4000
    /\ returned.value[1].height = 10000

InvalidImage == image_bytes.kind # "image" \/ image_bytes.w <= 0 \/ image_bytes.h <= 0

(* C10: when the image does not decode or has a zero or negative           *)
(* dimension, the call ends with the invalid-image error before any other  *)
(* work: the handle is not asked for, the detector is not invoked, and no  *)
(* list, not even an empty one, is returned.                               *)
C10_InvalidImageFailsFast ==
    InvalidImage =>
        /\ pc \in {"decode", "raised"}
        /\ get_model_calls = 0 /\ predict_calls = 0
        /\ model = None /\ results = <<>> /\ detections = <<>>
        /\ returned = None
        /\ (pc = "raised" => exc = Raised("ValueError", "Unable to decode image bytes"))
        /\ (pc = "decode" => exc = None)

C10_Witness ==
    /\ InvalidImage /\ image_bytes.kind = "image" /\ image_bytes.w = 0
    /\ pc = "raised" /\ exc.exception = "ValueError"
    /\ get_model_calls = 0 /\ predict_calls = 0

(* the number of raw detections in what model.predict returned *)
RawCount(res) == IF HasBoxes(res) THEN Len(res[1].boxes.xyxy) ELSE 0

IsErrorResponse(r) == r # None /\ "detail" \in DOMAIN r

IsSuccessResponse(r) == r # None /\ "content" \in DOMAIN r

(* how many of the first n uploads have content *)
NonEmptyCount(n) == Cardinality({j \in 1..n : images[j] # EmptyBytes})

SomeAnalysisRaised == \E k \in 1..Len(analyses) : IsRaised(analyses[k].outcome)

(* C11: there is no silent partial result.  Every call of                  *)
(* analyze_image_bytes that has ended either returned one record for each  *)
(* raw detection of its image or raised one exception carrying a message,  *)
(* and a call that raised has returned nothing.  A /detect request in      *)
(* which an analysis raised is answered by an error (status 500, a         *)
(* detail, no result lists), never by the lists gathered so far; a 200     *)
(* answer carries a list for every upload.  analyze_pickup_return returns  *)
(* its dictionary only when both analyses returned, and otherwise ends in  *)
(* the exception. *)
C11_NoSilentPartialResult ==
    /\ \A k \in 1..Len(analyses) :
           LET a == analyses[k]
           IN  \/ IsRaised(a.outcome) /\ a.outcome.message \in STRING
               \/ /\ "value" \in DOMAIN a.outcome
                  /\ Len(a.outcome.value) = RawCount(a.results)
    /\ pc = "returned" => Len(returned.value) = RawCount(results)
    /\ pc = "raised" => returned = None /\ IsRaised(exc)
    /\ (app_pc = "done" /\ SomeAnalysisRaised) =>
           /\ IsErrorResponse(response)
           /\ ~IsSuccessResponse(response)
           /\ response.status_code = 500
           /\ response.detail[1] = "Inference failed: "
    /\ IsSuccessResponse(response) =>
           /\ ~SomeAnalysisRaised
           /\ Len(response.content) = Len(images)
           /\ Len(analyses) = NonEmptyCount(Len(images))
    /\ (cmp_pc \in {"diff", "returned"}) => Len(analyses) = 2 /\ ~SomeAnalysisRaised
    /\ cmp_pc = "returned" =>
           /\ cmp_ret.value.pickup_detections = analyses[1].outcome.value
           /\ cmp_ret.value.return_detections = analyses[2].outcome.value
    /\ cmp_pc = "raised" => IsRaised(cmp_ret)

(* The second of two uploads fails after the first gave a non-empty list:  *)
(* the request ends in the error, the first list is not returned. *)
C11_Witness ==
    /\ app_pc = "done"
    /\ Len(images) = 2
    /\ Len(batched_results) = 1 /\ Len(batched_results[1]) > 0
    /\ Len(analyses) = 2 /\ IsRaised(analyses[2].outcome)
    /\ response.status_code = 500

(* C12: inference failures are never retried.  In every call of            *)
(* analyze_image_bytes the detector's predict is invoked at most once (and *)
(* the handle asked for at most once), every image is analysed at most     *)
(* once, and the scorer is called at most once.  The call that raised is   *)
(* the last one made: at the API layer its exception is the one response,  *)
(* status 500 with detail "Inference failed: <cause>"; in                  *)
(* analyze_pickup_return the exception of the analysis or of the scorer is *)
(* what the call ends with, and no result is computed after it. *)
C12_FailuresAreNotRetried ==
    /\ predict_calls <= 1 /\ get_model_calls <= 1
    /\ \A k \in 1..Len(analyses) :
           LET a == analyses[k]
           IN  /\ a.predict_calls <= 1 /\ a.get_model_calls <= 1
               /\ IsRaised(a.outcome) =>
                      /\ k = Len(analyses)
                      /\ pc = "raised"
                      /\ app_pc # "idle" =>
                             /\ app_pc = "done"
                             /\ response = HTTPException(500, <<"Inference failed: ",
                                                                a.outcome.message>>)
                             /\ Len(batched_results) = upload_k - 1
                             /\ Len(previews) < k
                      /\ cmp_pc # "idle" =>
                             /\ cmp_pc = "raised" /\ cmp_ret = a.outcome
                             /\ clip_calls = <<>>
    /\ app_pc \notin {"idle", "detect"} =>
           Len(analyses) <= NonEmptyCount(IF upload_k > Len(images) THEN Len(images)
                                          ELSE upload_k)
    /\ cmp_pc # "idle" => Len(analyses) <= 2
    /\ Len(clip_calls) <= 1
    /\ \A k \in 1..Len(clip_calls) :
           IsRaised(clip_calls[k].result) =>
               /\ cmp_pc = "raised" /\ cmp_ret = clip_calls[k].result
               /\ similarity = None

(* predict raised for the second upload of a request: one invocation, one  *)
(* HTTP 500 *)
C12_Witness ==
    /\ app_pc = "done"
    /\ Len(analyses) = 2
    /\ analyses[2].predict_calls = 1
    /\ analyses[2].outcome = Raised("RuntimeError", "predict failed")
    /\ response = HTTPException(500, <<"Inference failed: ", "predict failed">>)

(* the analyzer call that handled upload k, an upload with content *)
AnalysisOf(k) == analyses[NonEmptyCount(k)]

(* C17: a successful /detect response holds exactly one list per uploaded  *)
(* file, in upload order: position k holds what the analyzer returned for  *)
(* the k-th upload, and [] for an upload without content, for which the    *)
(* analyzer (and so the detector) is never called; uploads without content *)
(* alone never make the request an error. *)
C17_OneListPerUploadInOrder ==
    /\ IsSuccessResponse(response) =>
           /\ Len(response.content) = Len(images)
           /\ Len(analyses) = NonEmptyCount(Len(images))
           /\ \A k \in 1..Len(images) :
                  IF images[k] = EmptyBytes
                  THEN response.content[k] = <<>>
                  ELSE /\ AnalysisOf(k).image_bytes = images[k]
                       /\ AnalysisOf(k).outcome = [value |-> response.content[k]]
    /\ \A k \in 1..Len(analyses) : analyses[k].image_bytes # EmptyBytes
    /\ app_pc # "idle" => image_bytes # EmptyBytes
    /\ IsErrorResponse(response) => Len(images) = 0 \/ SomeAnalysisRaised
    /\ (app_pc = "done" /\ Len(images) > 0 /\ NonEmptyCount(Len(images)) = 0) =>
           response = JSONResponse([k \in 1..Len(images) |-> <<>>])

(* An upload without content followed by an image with detections. *)
C17_Witness ==
    /\ IsSuccessResponse(response)
    /\ Len(images) = 2
    /\ images[1] = EmptyBytes
    /\ response.content[1] = <<>>
    /\ Len(response.content[2]) = 2
    /\ Len(analyses) = 1

(* C18: saving the debug preview never affects the API result.             *)
(* save_image_with_bboxes is called only when SAVE_DEBUG_IMAGES is set and *)
(* only for an analysis that returned, with that analysis' bytes and       *)
(* detections; whether it saved or raised, what _run_inference returns is  *)
(* what the analyzer returned, and a preview that raised never makes the   *)
(* response an error. *)
C18_PreviewNeverAffectsResult ==
    /\ ~SAVE_DEBUG_IMAGES => previews = <<>>
    /\ Len(previews) <= Len(analyses)
    /\ \A k \in 1..Len(previews) :
           /\ SAVE_DEBUG_IMAGES
           /\ previews[k].image_bytes = analyses[k].image_bytes
           /\ analyses[k].outcome = [value |-> previews[k].detections]
    /\ app_pc \in {"preview", "return"} =>
           run_detections = analyses[Len(analyses)].outcome
    /\ app_pc = "return" => Len(previews) = (IF SAVE_DEBUG_IMAGES THEN Len(analyses) ELSE 0)
    /\ IsErrorResponse(response) => Len(images) = 0 \/ SomeAnalysisRaised
    /\ IsSuccessResponse(response) =>
           \A k \in 1..Len(images) :
               images[k] # EmptyBytes =>
                   AnalysisOf(k).outcome = [value |-> response.content[k]]

(* A preview that raised, and the detections of its image in the answer. *)
C18_Witness ==
    /\ IsSuccessResponse(response)
    /\ Len(images) = 1
    /\ Len(previews) = 1
    /\ IsRaised(previews[1].outcome)
    /\ Len(response.content[1]) > 0
    /\ response.content[1] = previews[1].detections

(* the calls before call k that got a model *)
ModelCallsBefore(k) == {j \in 1..(k - 1) : ~IsRaised(clip_calls[j].model)}

(* the latest of them (there is one) *)
LastModelCallBefore(k) ==
    CHOOSE j \in ModelCallsBefore(k) : \A h \in ModelCallsBefore(k) : h <= j

(* the first call that got a model (there is one before call k) *)
FirstModelCallBefore(k) ==
    CHOOSE j \in ModelCallsBefore(k) : \A h \in ModelCallsBefore(k) : j <= h

(* C15, as the spec states it: the cache is one slot filled by the first   *)
(* call; a later call with a different configuration gets the first model  *)
(* and no model is loaded (stated for the calls that got a model). *)
C15_FirstModelIsReused ==
    \A k \in 1..Len(clip_calls) :
        (/\ ModelCallsBefore(k) # {}
         /\ ~IsRaised(clip_calls[k].model)
         /\ clip_calls[k].key # clip_calls[FirstModelCallBefore(k)].key) =>
            /\ clip_calls[k].model = clip_calls[FirstModelCallBefore(k)].model
            /\ ~clip_calls[k].created

(* C15, amended: the cache is one slot keyed by the arguments (model name, *)
(* checkpoint, resolved device).  A call whose arguments equal those of    *)
(* the latest call that got a model is given that same model and loads     *)
(* nothing; any other call loads a new model for its own arguments, which  *)
(* replaces the slot's entry (or raises and leaves the slot as it was).    *)
(* The model a call gets is always one built for that call's arguments. *)
C15_SlotKeyedByArguments ==
    /\ \A k \in 1..Len(clip_calls) :
           LET c == clip_calls[k]
           IN  /\ ~IsRaised(c.model) => c.model.config = c.key
               /\ IF /\ ModelCallsBefore(k) # {}
                     /\ clip_calls[LastModelCallBefore(k)].key = c.key
                  THEN /\ c.model = clip_calls[LastModelCallBefore(k)].model
                       /\ ~c.created
                  ELSE \/ IsRaised(c.model) /\ ~c.created
                       \/ /\ c.created
                          /\ ~IsRaised(c.model)
                          /\ \A j \in ModelCallsBefore(k) : clip_calls[j].model # c.model
    /\ clip_loads = Cardinality({k \in 1..Len(clip_calls) : clip_calls[k].created})
    /\ LET n == Len(clip_calls) + 1
       IN  clip_cache = IF ModelCallsBefore(n) = {} THEN None
                        ELSE [key |-> clip_calls[LastModelCallBefore(n)].key,
                              value |-> clip_calls[LastModelCallBefore(n)].model]

(* Two configurations in turn, then the first again: three models. *)
C15_Witness ==
    /\ Len(clip_calls) = 3
    /\ clip_calls[1].key # clip_calls[2].key
    /\ clip_calls[3].key = clip_calls[1].key
    /\ \A k \in 1..3 : clip_calls[k].created /\ ~IsRaised(clip_calls[k].model)
    /\ clip_calls[2].model.config = clip_calls[2].key
    /\ clip_calls[3].model # clip_calls[1].model
    /\ clip_loads = 3

(* C14, as the spec states it: over every interleaving of load_model and   *)
(* get_model calls at most one YOLO instance is created, at most one       *)
(* assignment is made to _model (once set it is never replaced), and all   *)
(* calls that return give the same instance. *)
C14_AtMostOneInstance ==
    /\ ld_created <= 1
    /\ Len(ld_stores) <= 1
    /\ \A j, k \in 1..Len(ld_calls) :
           (~IsRaised(ld_calls[j].result) /\ ~IsRaised(ld_calls[k].result)) =>
               ld_calls[j].result = ld_calls[k].result

LoadSucceededBefore(k) == \E j \in 1..(k - 1) : ~IsRaised(ld_calls[j].result)

IsPrefix(a, b) == Len(a) <= Len(b) /\ \A k \in 1..Len(a) : a[k] = b[k]

(* C16: on an empty cache load_model attempts the configured path first    *)
(* and "yolov8n.pt" only after, and only when, the first attempt raised;   *)
(* the first attempt that succeeds gives the handle that is stored and     *)
(* returned; when both raise the call raises, nothing is stored, and the   *)
(* next call goes through the chain again.  On a filled cache nothing is   *)
(* attempted.  (Calls that do not overlap.) *)
C16_OrderedFallbackChain ==
    /\ \A k \in 1..Len(ld_calls) :
           LET c == ld_calls[k]
           IN  IF LoadSucceededBefore(k)
               THEN c.attempts = <<>> /\ ~IsRaised(c.result)
               ELSE IF IsRaised(c.result)
                    THEN c.attempts = <<c.model_path, "yolov8n.pt">>
                    ELSE \/ c.attempts = <<c.model_path>> /\ c.result.weights = c.model_path
                         \/ /\ c.attempts = <<c.model_path, "yolov8n.pt">>
                            /\ c.result.weights = "yolov8n.pt"
    /\ \A k \in 1..Len(ld_calls) : ~IsRaised(ld_calls[k].result) => ld_calls[k].result = _model
    /\ \A t \in DOMAIN ld_pc :
           /\ IsPrefix(ld_attempts[t], <<ld_path[t], "yolov8n.pt">>)
           /\ ld_pc[t] = "primary" => ld_attempts[t] = <<>> /\ _model = None
           /\ ld_pc[t] = "fallback" =>
                  ld_attempts[t] = <<ld_path[t]>> /\ ld_loaded[t] = None /\ _model = None
           /\ ld_pc[t] = "store" =>
                  /\ ld_loaded[t] # None
                  /\ ld_loaded[t].weights = ld_attempts[t][Len(ld_attempts[t])]
                  /\ _model = None
    /\ _model = IF Len(ld_stores) = 0 THEN None ELSE ld_stores[Len(ld_stores)].handle
    /\ (/\ \A t \in DOMAIN ld_pc : ld_pc[t] = "idle"
        /\ \A k \in 1..Len(ld_calls) : IsRaised(ld_calls[k].result)) =>
           Len(ld_stores) = 0 /\ _model = None

(* Both attempts of the first call raise; the second call goes through the *)
(* chain again and keeps the fallback; the third finds the cache filled. *)
C16_Witness ==
    /\ Len(ld_calls) = 3
    /\ IsRaised(ld_calls[1].result)
    /\ ld_calls[2].attempts = <<ld_calls[2].model_path, "yolov8n.pt">>
    /\ ~IsRaised(ld_calls[2].result)
    /\ ld_calls[2].result.weights = "yolov8n.pt"
    /\ ld_calls[3].attempts = <<>>
    /\ ld_calls[3].result = ld_calls[2].result
    /\ _model = ld_calls[2].result

(* C13, as the spec states it: while the detector call of one request is   *)
(* running, any other request that is waiting for the loop (just arrived,  *)
(* or its read done) can be accepted or resumed. *)
C13_InferenceDoesNotStallOthers ==
    \A a, b \in Requests :
        (a # b /\ req[a].at = "inferring" /\ req[b].at \in {"arrived", "ready"}) =>
            ENABLED (Accept(b) \/ Resume(b))
====
